---- MODULE Spec2Model ----
(***************************************************************************)
(* A model of window_cycler's global hotkey engine                         *)
(* (src/core/hotkey_manager.py, class HotkeyManager) together with the     *)
(* threads that run its handlers: the keyboard library's hook thread, the  *)
(* Win32 message-pump threads it spawns, and pynput's keyboard and mouse   *)
(* listener threads.                                                       *)
(*                                                                         *)
(* Times are in milliseconds.  None is modelled by NoConfig for a config,  *)
(* by "None" for a method, and by 0 for a thread reference or a virtual    *)
(* key code (Python treats both None and 0 as false in the tests the code  *)
(* makes).                                                                 *)
(***************************************************************************)
EXTENDS Integers, Sequences, FiniteSets, TLC

(***************************************************************************)
(* Bounds of the model.                                                    *)
(***************************************************************************)
\* Message-pump threads that can exist at once (live or lingering).
MaxPumps == 2
\* Clock ticks a behaviour may take, each of TickMs milliseconds.
MaxTicks == 2
TickMs == 100
\* Callback threads a behaviour may spawn.
MaxCallbacks == 2
\* Windows in a list handed to set_windows.
MaxWindows == 3
\* Triggers of a behaviour that find a window list; once they are spent the
\* list is not set again.
MaxCycles == 2
\* Triggers of a behaviour over a list whose windows all answer.
MaxRounds == 4
\* cycle_next calls of a behaviour that also jumps, refreshes and reorders.
MaxDirectCycles == 1

(***************************************************************************)
(* Program constants.                                                      *)
(***************************************************************************)
\* self.min_trigger_interval = 0.2 (seconds), here in milliseconds.
min_trigger_interval == 200

\* self.method_priority
method_priority == <<"keyboard", "win32", "pynput">>

Methods == {"keyboard", "win32", "pynput"}

\* class ModifierKey
ModifierKey == {"ctrl", "alt", "shift", "win"}

(***************************************************************************)
(* The key names of the combo grammar (HotkeyValidator.VALID_KEYS).        *)
(***************************************************************************)
FunctionKeySeq ==
    <<"f1", "f2", "f3", "f4", "f5", "f6", "f7", "f8", "f9", "f10", "f11", "f12">>

LetterSeq ==
    <<"a", "b", "c", "d", "e", "f", "g", "h", "i", "j", "k", "l", "m",
      "n", "o", "p", "q", "r", "s", "t", "u", "v", "w", "x", "y", "z">>

DigitSeq == <<"0", "1", "2", "3", "4", "5", "6", "7", "8", "9">>

Range(s) == {s[i] : i \in DOMAIN s}

IndexOf(s, x) == CHOOSE i \in DOMAIN s : s[i] = x

MouseKeys == {"middle", "mouse4", "mouse5"}

VALID_KEYS ==
    Range(FunctionKeySeq)
    \cup {"space", "tab", "enter", "escape", "backspace", "delete", "insert",
          "home", "end", "pageup", "pagedown", "up", "down", "left", "right"}
    \cup MouseKeys \cup Range(DigitSeq) \cup Range(LetterSeq)

(***************************************************************************)
(* HotkeyConfig: the parsed combo.  Only the fields the engine reads.      *)
(***************************************************************************)
NoConfig == [modifiers |-> <<>>, main_key |-> ""]

\* The combos the model configures: a keyboard combo, a combo whose main key
\* is a pointer button, and a combo with the win modifier.
Combos ==
    { [modifiers |-> <<"ctrl">>, main_key |-> "f5"],
      [modifiers |-> <<"ctrl">>, main_key |-> "mouse5"],
      [modifiers |-> <<"win">>,  main_key |-> "f5"] }

(***************************************************************************)
(* Physical input.  Keys and buttons carry pynput's names (Key.ctrl_l is   *)
(* "ctrl_l", Key.cmd, the Windows key, is "cmd", Button.x2 is "x2", a      *)
(* character key is its character).                                        *)
(***************************************************************************)
\* The keys and buttons the modelled user operates.
PhysKeys == {"ctrl_l", "cmd", "f5"}

PhysButtons == {"x2"}

\* The physical key or button a main key of the grammar names.
PhysOfMain(main_key) ==
    CASE main_key = "middle" -> "middle"
      [] main_key = "mouse4" -> "x1"
      [] main_key = "mouse5" -> "x2"
      [] main_key = "escape" -> "esc"
      [] OTHER -> main_key

\* Whether modifier m is held, given the set of keys that are down.
ModifierDown(m, downset) ==
    CASE m = "ctrl"  -> "ctrl_l" \in downset \/ "ctrl_r" \in downset
      [] m = "alt"   -> "alt_l" \in downset \/ "alt_r" \in downset
      [] m = "shift" -> "shift_l" \in downset \/ "shift_r" \in downset
      [] m = "win"   -> "cmd" \in downset \/ "cmd_r" \in downset
      [] OTHER -> FALSE

\* The combo is fully asserted: every modifier and the main key are down.
PhysAsserted(config, downset) ==
    /\ config # NoConfig
    /\ \A i \in DOMAIN config.modifiers : ModifierDown(config.modifiers[i], downset)
    /\ PhysOfMain(config.main_key) \in downset

(***************************************************************************)
(* HotkeyManager._get_vk_code: the Windows virtual key code of a key, 0    *)
(* for None.                                                               *)
(***************************************************************************)
special_vk_map ==
    ("space" :> 32) @@ ("tab" :> 9) @@ ("enter" :> 13) @@ ("escape" :> 27)
    @@ ("backspace" :> 8) @@ ("delete" :> 46) @@ ("up" :> 38) @@ ("down" :> 40)
    @@ ("left" :> 37) @@ ("right" :> 39)

\* A mutant of _get_vk_code: pointer buttons get the VK_MBUTTON / VK_XBUTTON
\* codes instead of None.
GetVkCodeWithButtons(key) ==
    IF key \in Range(FunctionKeySeq) THEN 112 + (IndexOf(FunctionKeySeq, key) - 1)
    ELSE IF key \in DOMAIN special_vk_map THEN special_vk_map[key]
    ELSE IF key \in Range(LetterSeq) THEN 64 + IndexOf(LetterSeq, key)
    ELSE IF key \in Range(DigitSeq) THEN 47 + IndexOf(DigitSeq, key)
    ELSE IF key = "middle" THEN 4
    ELSE IF key = "mouse4" THEN 5
    ELSE IF key = "mouse5" THEN 6
    ELSE 0

get_vk_code(key) ==
    \* key.startswith('f') and key[1:].isdigit() and 1 <= f_num <= 12:
    \* VK_F1 + (f_num - 1), VK_F1 = 0x70
    IF key \in Range(FunctionKeySeq) THEN 112 + (IndexOf(FunctionKeySeq, key) - 1)
    ELSE IF key \in DOMAIN special_vk_map THEN special_vk_map[key]
    \* ord(key.upper()), ord('A') = 65
    ELSE IF key \in Range(LetterSeq) THEN 64 + IndexOf(LetterSeq, key)
    \* ord(key), ord('0') = 48
    ELSE IF key \in Range(DigitSeq) THEN 47 + IndexOf(DigitSeq, key)
    \* pointer buttons, and every other key: None
    ELSE 0

(***************************************************************************)
(* HotkeyManager._convert_for_win32: <<vk_code, mod_flags>>, the flags a   *)
(* set of MOD_ names (the bitwise or of distinct bits); <<0, {}>> stands   *)
(* for (None, None).                                                       *)
(***************************************************************************)
ModFlag(m) ==
    CASE m = "ctrl"  -> "MOD_CONTROL"
      [] m = "alt"   -> "MOD_ALT"
      [] m = "shift" -> "MOD_SHIFT"
      [] m = "win"   -> "MOD_WIN"

convert_for_win32(config) ==
    LET mod_flags == {ModFlag(config.modifiers[i]) : i \in DOMAIN config.modifiers}
        vk_code   == get_vk_code(config.main_key)
    IN  IF vk_code # 0 THEN <<vk_code, mod_flags>> ELSE <<0, {}>>

(***************************************************************************)
(* What the OS matches a registered hotkey against: the modifier flags of  *)
(* the keys that are down, and the virtual key of the key that goes down.  *)
(***************************************************************************)
ModFlagsDown(downset) == {ModFlag(m) : m \in {x \in ModifierKey : ModifierDown(x, downset)}}

PhysVk(k) == get_vk_code(k)

(***************************************************************************)
(* HotkeyManager._is_modifier_pressed, _is_main_key_pressed and            *)
(* _is_combo_active_pynput, on the pressed-key and pressed-button sets.    *)
(***************************************************************************)
is_modifier_pressed(modifier, pressed_keys) ==
    CASE modifier = "ctrl"  -> "ctrl_l" \in pressed_keys \/ "ctrl_r" \in pressed_keys
      [] modifier = "alt"   -> "alt_l" \in pressed_keys \/ "alt_r" \in pressed_keys
      [] modifier = "shift" -> "shift_l" \in pressed_keys \/ "shift_r" \in pressed_keys
      \* no branch for ModifierKey.WIN
      [] OTHER -> FALSE

pynput_special_keys ==
    ("tab" :> "tab") @@ ("space" :> "space") @@ ("enter" :> "enter")
    @@ ("escape" :> "esc") @@ ("backspace" :> "backspace") @@ ("delete" :> "delete")
    @@ ("up" :> "up") @@ ("down" :> "down") @@ ("left" :> "left") @@ ("right" :> "right")

is_main_key_pressed(main_key, pressed_keys, pressed_mouse) ==
    \* f_key_map.get(f_num) in self.pressed_keys
    IF main_key \in Range(FunctionKeySeq) THEN main_key \in pressed_keys
    ELSE IF main_key \in DOMAIN pynput_special_keys
         THEN pynput_special_keys[main_key] \in pressed_keys
    ELSE IF main_key = "middle" THEN "middle" \in pressed_mouse
    ELSE IF main_key = "mouse4" THEN "x1" \in pressed_mouse
    ELSE IF main_key = "mouse5" THEN "x2" \in pressed_mouse
    \* len(main_key) == 1: KeyCode.from_char(main_key)
    ELSE IF main_key \in Range(LetterSeq) \cup Range(DigitSeq) THEN main_key \in pressed_keys
    ELSE FALSE

is_combo_active_pynput(config, pressed_keys, pressed_mouse) ==
    IF config = NoConfig THEN FALSE
    ELSE /\ \A i \in DOMAIN config.modifiers :
                is_modifier_pressed(config.modifiers[i], pressed_keys)
         /\ is_main_key_pressed(config.main_key, pressed_keys, pressed_mouse)

(***************************************************************************)
(* State.                                                                  *)
(***************************************************************************)
VARIABLES
    hk,                \* the HotkeyManager object's attributes
    os,                \* what the libraries hold: the keyboard library's hook,
                       \* and whether each pynput listener thread runs
    pump,              \* the message-pump threads (_win32_hotkey_thread)
    lt,                \* the library threads that run the engine's handlers
    down,              \* the keys and buttons physically down
    repeat_key,        \* the key the keyboard auto-repeats ("" for none)
    clock,             \* time.time(), in milliseconds
    callback_threads,  \* the callback threads spawned; each runs for as long as
                       \* the callback takes, possibly for ever
    ret,               \* the outcome of the public call that just returned
    hist,              \* history: what the claims are stated about
    wc,                \* the WindowCycler object's attributes
    call               \* what the WindowCycler call that just returned did

vars == <<hk, os, pump, lt, down, repeat_key, clock, callback_threads, ret, hist,
          wc, call>>

PumpIds == 1 .. MaxPumps

LibThreads == {"kb", "key", "mouse"}

\* A pump slot no thread uses.
NoPump == [pc |-> "none", vk |-> 0, mods |-> {}, msg |-> FALSE, now |-> 0, hold |-> FALSE]

\* A library thread between two events.
IdleThread == [pc |-> "idle", now |-> 0, combo_active |-> FALSE, edge |-> FALSE, hold |-> FALSE]

NoEnv == [kb |-> "none", pyn |-> "none"]

\* ret holds the public call that has just returned: its result, the
\* iterations start_listening made and what the libraries answered.
NoRet == [op |-> "none", result |-> FALSE, tried |-> <<>>, env |-> NoEnv]

\* A pump thread that holds its OS hotkey registration.
Registered(p) == pump[p].pc \in {"loop", "get_message", "should_trigger", "accepted"}

\* A pump thread that exists: started and not yet returned.
Alive(p) == pump[p].pc # "none"

FreePumps == {p \in PumpIds : ~Alive(p)}

(***************************************************************************)
(* HotkeyManager.__init__.  Which of the three libraries can be imported   *)
(* is fixed when the object is built.                                      *)
(***************************************************************************)
InitHk(kb, w32, pyn) ==
    [ current_config     |-> NoConfig,
      callback           |-> FALSE,
      is_listening       |-> FALSE,
      last_trigger_time  |-> 0,
      active_method      |-> "None",
      hotkey_thread      |-> 0,
      stop_thread        |-> FALSE,
      keyboard_available |-> kb,
      windows_api        |-> w32,
      pynput_available   |-> pyn,
      pressed_keys       |-> {},
      pressed_mouse      |-> {},
      last_combo_state   |-> FALSE,
      key_listener       |-> FALSE,
      mouse_listener     |-> FALSE ]

InitHist ==
    [ accepted |-> <<>>,     \* arrival times of the accepted triggers
      hold_dispatches |-> 0, \* callbacks the present hold of the combo produced
      owed |-> FALSE,        \* the combo was asserted and no callback followed yet
      dropped |-> FALSE ]    \* a candidate was rejected since the last accepted one

\* WindowCycler.__init__.
InitCycler ==
    [ windows                |-> <<>>,
      current_index          |-> 0,
      total_cycles           |-> 0,
      successful_activations |-> 0,
      failed_activations     |-> 0 ]

\* What the OS answers one call of WindowsAPI.activate_window: the window
\* in the foreground before, the answers of GetWindowPlacement, of the
\* ShowWindow that restores, of the first SetForegroundWindow, of
\* AttachThreadInput, of the requests made with the input attached
\* ("same_thread" when the window is the caller's own and nothing is
\* attached) and of GetForegroundWindow, and the
\* window, if any, that takes the foreground before the verification.
NoActivation ==
    [ foreground |-> "", placement |-> "none", restore |-> "none", basic |-> "none",
      attach_input |-> "none", attach |-> "none", taken_by |-> "",
      check |-> "none" ]

\* HotkeyConfig: the fields of the dataclass.  A str is a sequence of words
\* and separators (see Atoms).
NoParsed ==
    [ raw_value |-> <<>>, display_name |-> <<>>, modifiers |-> <<>>,
      main_key |-> <<>>, hotkey_type |-> "none" ]

\* How a call of HotkeyConfig.parse ended, and the config it returned.
NoParse == [outcome |-> "none", config |-> NoParsed]

\* No WindowCycler call has just returned.  removed, activated and stopped
\* are the on_window_removed, on_window_activated and on_cycling_stopped
\* notifications the call fired, attempted the windows it handed to
\* activate_window, in order; supplied are the windows handed to set_windows
\* that the OS called valid, in the order they were handed over; valid are
\* the handles of the list the call found that the OS called valid; index
\* and key are what cycle_to_specific and cycle_to_character were asked
\* for, answer what activate_window answered them; frames are the calls
\* that threads are in the middle of, where calls are taken step by step;
\* text is a hotkey string, parsed what HotkeyConfig.parse made of it and
\* again what it made of the raw_value of parsed; hwnd is the handle
\* WindowsAPI.activate_window was given, env what the OS answered it, steps
\* the methods it went into, attached whether it returned with the thread
\* input still attached and foreground what GetForegroundWindow gave.
NoCall ==
    [ op             |-> "none",
      outcome        |-> "none",
      result         |-> FALSE,
      supplied       |-> <<>>,
      valid          |-> {},
      index          |-> 0,
      key            |-> "",
      answer         |-> FALSE,
      frames         |-> <<>>,
      text           |-> <<>>,
      parsed         |-> NoParse,
      again          |-> NoParse,
      hwnd           |-> "",
      env            |-> NoActivation,
      steps          |-> <<>>,
      attached       |-> FALSE,
      foreground     |-> "",
      removed        |-> <<>>,
      attempted      |-> <<>>,
      activated      |-> <<>>,
      stopped        |-> 0 ]

Init ==
    /\ \E kb \in BOOLEAN, w32 \in BOOLEAN, pyn \in BOOLEAN : hk = InitHk(kb, w32, pyn)
    /\ os = [kb_hook |-> NoConfig, key_running |-> FALSE, mouse_running |-> FALSE]
    /\ pump = [p \in PumpIds |-> NoPump]
    /\ lt = [t \in LibThreads |-> IdleThread]
    /\ down = {}
    /\ repeat_key = ""
    \* time.time() is far above the debounce interval when the program starts
    /\ clock = min_trigger_interval
    /\ callback_threads = 0
    /\ ret = NoRet
    /\ hist = InitHist
    /\ wc = InitCycler
    /\ call = NoCall

(***************************************************************************)
(* HotkeyManager.stop_listening, on the world w = [hk, os, pump].          *)
(***************************************************************************)
stop_listening(w) ==
    LET h == w.hk
        \* if self.hotkey_thread: self.stop_thread = True; self.hotkey_thread = None
        h1 == [h EXCEPT !.is_listening = FALSE,
                        !.stop_thread = IF h.hotkey_thread # 0 THEN TRUE ELSE @,
                        !.hotkey_thread = 0,
                        \* listener.stop(); self.key_listener = None
                        !.key_listener = FALSE,
                        !.mouse_listener = FALSE,
                        !.active_method = "None"]
        o1 == [w.os EXCEPT
                 \* self.keyboard.unhook_all()
                 !.kb_hook = IF h.keyboard_available THEN NoConfig ELSE @,
                 !.key_running = IF h.key_listener THEN FALSE ELSE @,
                 !.mouse_running = IF h.mouse_listener THEN FALSE ELSE @]
    IN  [w EXCEPT !.hk = h1, !.os = o1]

(***************************************************************************)
(* The three capture methods' start routines.  Each takes the world and    *)
(* what the library does when asked (env), and gives the world afterwards  *)
(* and the boolean the routine returns.                                    *)
(***************************************************************************)
\* What a library may answer: keyboard.add_hotkey and the construction of
\* the pynput listeners either work or raise.
Envs == [kb : {"ok", "raise"}, pyn : {"ok", "raise"}]

start_keyboard_method(w, env) ==
    IF ~w.hk.keyboard_available \/ w.hk.current_config = NoConfig
    THEN [w |-> w, success |-> FALSE]
    ELSE \* self.keyboard.unhook_all(), then self.keyboard.add_hotkey(...),
         \* which raises ValueError on a key name it cannot map: the names
         \* _convert_for_keyboard_lib gives the pointer buttons are such names
         IF env.kb = "ok" /\ w.hk.current_config.main_key \notin MouseKeys
         THEN [w |-> [w EXCEPT !.os.kb_hook = w.hk.current_config], success |-> TRUE]
         ELSE [w |-> [w EXCEPT !.os.kb_hook = NoConfig], success |-> FALSE]

start_win32_method(w) ==
    IF ~w.hk.windows_api \/ w.hk.current_config = NoConfig
    THEN [w |-> w, success |-> FALSE]
    ELSE LET conv == convert_for_win32(w.hk.current_config)
             free == {q \in PumpIds : w.pump[q].pc = "none"}
             p    == CHOOSE q \in free : \A r \in free : q <= r
         IN  IF conv[1] = 0
             THEN [w |-> w, success |-> FALSE]
             ELSE [w |-> [w EXCEPT !.hk.stop_thread = FALSE,
                                   !.hk.hotkey_thread = p,
                                   !.pump[p] = [NoPump EXCEPT !.pc = "register",
                                                              !.vk = conv[1],
                                                              !.mods = conv[2]]],
                   success |-> TRUE]

start_pynput_method(w, env) ==
    IF ~w.hk.pynput_available \/ w.hk.current_config = NoConfig
    THEN [w |-> w, success |-> FALSE]
    ELSE LET reset == [w EXCEPT !.hk.pressed_keys = {},
                                !.hk.pressed_mouse = {},
                                !.hk.last_combo_state = FALSE]
         IN  IF env.pyn = "ok"
             THEN [w |-> [reset EXCEPT !.hk.key_listener = TRUE,
                                       !.hk.mouse_listener = TRUE,
                                       !.os.key_running = TRUE,
                                       !.os.mouse_running = TRUE],
                   success |-> TRUE]
             ELSE [w |-> reset, success |-> FALSE]

(***************************************************************************)
(* HotkeyManager.start_listening: the loop over method_priority.  tried    *)
(* logs each iteration: the method and what became of it.                  *)
(***************************************************************************)
\* The branch of the if/elif chain that method takes: whether its start
\* routine is called at all.
Attempted(w, method) ==
    \/ method = "keyboard" /\ w.hk.keyboard_available
    \/ method = "win32" /\ w.hk.windows_api
    \/ method = "pynput" /\ w.hk.pynput_available

StartMethod(w, method, env) ==
    CASE method = "keyboard" -> start_keyboard_method(w, env)
      [] method = "win32"    -> start_win32_method(w)
      [] method = "pynput"   -> start_pynput_method(w, env)

RECURSIVE TryMethods(_, _, _, _, _)
TryMethods(priority, i, w, env, tried) ==
    IF i > Len(priority)
    THEN \* print("All hotkey methods failed"); return False
         [w |-> w, result |-> FALSE, tried |-> tried]
    ELSE LET method == priority[i]
             r == IF Attempted(w, method) THEN StartMethod(w, method, env)
                  ELSE [w |-> w, success |-> FALSE]
         IN  IF r.success
             THEN [w |-> [r.w EXCEPT !.hk.active_method = method,
                                     !.hk.is_listening = TRUE],
                   result |-> TRUE,
                   tried |-> Append(tried, [method |-> method, outcome |-> "armed"])]
             ELSE \* methods_tried.append(...), or the except clause: continue
                  TryMethods(priority, i + 1, r.w, env,
                      Append(tried, [method |-> method,
                                     outcome |-> IF Attempted(w, method) THEN "failed"
                                                 ELSE "unavailable"]))

\* A mutant of start_listening: the raw listener is tried before the OS hotkey.
StartListeningPynputFirst(w, env) ==
    IF w.hk.is_listening \/ w.hk.current_config = NoConfig
    THEN [w |-> w, result |-> FALSE, tried |-> <<>>]
    ELSE TryMethods(<<"keyboard", "pynput", "win32">>, 1, w, env, <<>>)

start_listening(w, env) ==
    IF w.hk.is_listening \/ w.hk.current_config = NoConfig
    THEN [w |-> w, result |-> FALSE, tried |-> <<>>]
    ELSE TryMethods(method_priority, 1, w, env, <<>>)

World == [hk |-> hk, os |-> os, pump |-> pump]

\* Forget which handlers belong to the present hold of the combo.
ClearHold(threads) == [t \in DOMAIN threads |-> [threads[t] EXCEPT !.hold = FALSE]]

(***************************************************************************)
(* HotkeyManager.set_hotkey: stop_listening, the two assignments, then     *)
(* start_listening.                                                        *)
(***************************************************************************)
set_hotkey(w, hotkey_config, env) ==
    LET stopped == stop_listening(w)
    IN  start_listening([stopped EXCEPT !.hk.current_config = hotkey_config,
                                        !.hk.callback = TRUE],
                        env)

SetHotkey(config) ==
    /\ FreePumps # {}
    /\ \E env \in Envs :
         LET r == set_hotkey(World, config, env)
         IN  /\ hk' = r.w.hk
             /\ os' = r.w.os
             /\ pump' = ClearHold(r.w.pump)
             /\ wc' = wc /\ call' = NoCall
             /\ ret' = [op |-> "set_hotkey", result |-> r.result, tried |-> r.tried,
                         env |-> env]
    /\ hist' = [hist EXCEPT !.owed = FALSE, !.hold_dispatches = 0]
    /\ lt' = ClearHold(lt)
    /\ UNCHANGED <<down, repeat_key, clock, callback_threads>>

\* The first configuration of a session.
FirstSetHotkey(config) ==
    /\ ~hk.callback
    /\ SetHotkey(config)

StopListening ==
    /\ LET w == stop_listening(World)
       IN  /\ hk' = w.hk
           /\ os' = w.os
    /\ wc' = wc /\ call' = NoCall
    /\ ret' = [NoRet EXCEPT !.op = "stop_listening"]
    /\ hist' = [hist EXCEPT !.owed = FALSE]
    /\ UNCHANGED <<pump, lt, down, repeat_key, clock, callback_threads>>

(***************************************************************************)
(* _should_trigger and _trigger_callback, as every capture thread runs     *)
(* them.  _should_trigger reads the clock and compares (one step), then    *)
(* writes last_trigger_time (a later step): the method takes no lock.      *)
(***************************************************************************)
\* The comparison of _should_trigger, were it strict.
ShouldTriggerTestStrict(current_time, last_trigger_time) ==
    current_time - last_trigger_time > min_trigger_interval

should_trigger_test(current_time, last_trigger_time) ==
    current_time - last_trigger_time >= min_trigger_interval

\* A mutant of _trigger_callback: the callback runs in the capture thread
\* itself and no thread is spawned.
TriggerCallbackInline(running) == running

\* threading.Thread(target=self.callback, daemon=True).start(): the number
\* of running callback threads afterwards.
trigger_callback(running) ==
    IF hk.callback THEN running + 1 ELSE running

\* What an accepted trigger does to the history.
HistAccept(now, in_hold) ==
    [hist EXCEPT !.accepted = Append(@, now),
                 !.hold_dispatches = IF in_hold /\ @ < 2 THEN @ + 1 ELSE @,
                 !.owed = FALSE,
                 !.dropped = FALSE]

(***************************************************************************)
(* The physical events and what each hook receives of them.                *)
(***************************************************************************)
\* The keys and buttons of a combo.
ComboKeys(config) ==
    IF config = NoConfig THEN {}
    ELSE {k \in PhysKeys \cup PhysButtons :
            \/ k = PhysOfMain(config.main_key)
            \/ \E i \in DOMAIN config.modifiers :
                   ModifierDown(config.modifiers[i], {k})}

\* The listener thread that receives the events of k, and whether it runs.
ListenerOf(k) == IF k \in PhysKeys THEN "key" ELSE "mouse"

ListenerRuns(k) == IF k \in PhysKeys THEN os.key_running ELSE os.mouse_running

\* The capture method configure armed can see the combo now.
ArmedReady ==
    /\ hk.is_listening
    /\ CASE hk.active_method = "keyboard" -> os.kb_hook = hk.current_config
         [] hk.active_method = "win32" ->
                hk.hotkey_thread \in PumpIds /\ Registered(hk.hotkey_thread)
         [] hk.active_method = "pynput" -> os.key_running /\ os.mouse_running
         [] OTHER -> FALSE

\* The pressed sets after pynput's handler has recorded the event.
PressedAfter(k, pressed) ==
    [keys  |-> IF k \in PhysKeys
               THEN (IF pressed THEN hk.pressed_keys \cup {k} ELSE hk.pressed_keys \ {k})
               ELSE hk.pressed_keys,
     mouse |-> IF k \in PhysButtons
               THEN (IF pressed THEN hk.pressed_mouse \cup {k} ELSE hk.pressed_mouse \ {k})
               ELSE hk.pressed_mouse]

\* An event of key or button k: it goes down (pressed), comes up, or, held
\* down, repeats (pressed and is_repeat).  Each hook that is in place
\* receives it; it waits while the thread that must handle it is still in
\* its previous handler.
\*   pynput: _on_key_press / _on_key_release / _on_mouse_click record the
\*     event in the pressed sets and go on to _check_combo_and_trigger;
\*   keyboard library: on_hotkey is called at every key-down event that
\*     leaves exactly the hotkey's keys down (the library sees no buttons);
\*   RegisterHotKey: WM_HOTKEY is posted to the registering thread at every
\*     key-down event of the virtual key while the modifier flags match, the
\*     repeats included unless MOD_NOREPEAT was passed.
InputEvent(k, pressed, is_repeat) ==
    LET downAfter == IF pressed THEN down \cup {k} ELSE down \ {k}
        after     == PressedAfter(k, pressed)
        T         == ListenerOf(k)
        pynGets   == ListenerRuns(k)
        kbGets    == /\ pressed
                     /\ k \in PhysKeys
                     /\ os.kb_hook # NoConfig
                     /\ ComboKeys(os.kb_hook) \subseteq PhysKeys
                     /\ PhysAsserted(os.kb_hook, downAfter)
        posts(p)  == /\ pressed
                     /\ k \in PhysKeys
                     /\ Registered(p)
                     /\ pump[p].vk = PhysVk(k)
                     /\ pump[p].mods \ {"MOD_NOREPEAT"} = ModFlagsDown(downAfter)
                     /\ is_repeat => "MOD_NOREPEAT" \notin pump[p].mods
        holdBefore == PhysAsserted(hk.current_config, down)
        holdNow    == PhysAsserted(hk.current_config, downAfter)
        keep(th)   == IF holdNow THEN th ELSE [th EXCEPT !.hold = FALSE]
    IN  /\ pynGets => lt[T].pc = "idle"
        /\ kbGets => lt["kb"].pc = "idle"
        /\ down' = downAfter
        /\ repeat_key' = IF k \in PhysKeys /\ pressed THEN k
                         ELSE IF repeat_key = k THEN "" ELSE repeat_key
        /\ hk' = IF pynGets
                 THEN [hk EXCEPT !.pressed_keys = after.keys, !.pressed_mouse = after.mouse]
                 ELSE hk
        /\ lt' = [t \in LibThreads |->
                    IF pynGets /\ t = T
                    THEN [IdleThread EXCEPT
                            !.pc = "check",
                            !.edge = /\ ~is_combo_active_pynput(hk.current_config,
                                             hk.pressed_keys, hk.pressed_mouse)
                                     /\ is_combo_active_pynput(hk.current_config,
                                             after.keys, after.mouse),
                            !.hold = holdNow]
                    ELSE IF kbGets /\ t = "kb"
                    THEN [IdleThread EXCEPT !.pc = "should_trigger", !.hold = holdNow]
                    ELSE keep(lt[t])]
        /\ pump' = [p \in PumpIds |->
                      IF posts(p) THEN [pump[p] EXCEPT !.msg = TRUE, !.hold = holdNow]
                      ELSE keep(pump[p])]
        /\ hist' = IF holdNow /\ ~holdBefore
                   THEN [hist EXCEPT
                           !.hold_dispatches = 0,
                           \* the main key completes the combo
                           !.owed = \/ @
                                    \/ /\ k = PhysOfMain(hk.current_config.main_key)
                                       /\ ArmedReady
                                       /\ \A i \in DOMAIN hist.accepted :
                                            clock - hist.accepted[i] >= min_trigger_interval]
                   ELSE hist
        /\ wc' = wc /\ call' = NoCall
        /\ ret' = NoRet
        /\ UNCHANGED <<os, clock, callback_threads>>

\* The user presses a key or button of the configured combo.
Press(k) ==
    /\ k \in ComboKeys(hk.current_config)
    /\ k \notin down
    /\ InputEvent(k, TRUE, FALSE)

Release(k) ==
    /\ k \in down
    /\ InputEvent(k, FALSE, FALSE)

\* The keyboard repeats the key pressed last while it stays down.
Repeat(k) ==
    /\ k = repeat_key
    /\ k \in down
    /\ InputEvent(k, TRUE, TRUE)

(***************************************************************************)
(* The handlers' steps on the library threads: the keyboard library's      *)
(* thread runs on_hotkey ("kb"); pynput's keyboard and mouse listener      *)
(* threads ("key", "mouse") run _check_combo_and_trigger.                  *)
(***************************************************************************)
\* _check_combo_and_trigger: combo_active, and the test of last_combo_state.
CheckCombo(t) ==
    /\ t \in {"key", "mouse"}
    /\ lt[t].pc = "check"
    /\ IF hk.current_config = NoConfig
       THEN lt' = [lt EXCEPT ![t] = IdleThread]
       ELSE LET combo_active == is_combo_active_pynput(hk.current_config,
                                    hk.pressed_keys, hk.pressed_mouse)
            IN  lt' = [lt EXCEPT ![t].combo_active = combo_active,
                                 ![t].pc = IF combo_active /\ ~hk.last_combo_state
                                           THEN "should_trigger" ELSE "set_last"]
    /\ wc' = wc /\ call' = NoCall
    /\ ret' = NoRet
    /\ UNCHANGED <<hk, os, pump, down, repeat_key, clock, callback_threads, hist>>

\* _should_trigger: current_time = time.time() and the comparison.
ShouldTrigger(t) ==
    /\ lt[t].pc = "should_trigger"
    /\ IF should_trigger_test(clock, hk.last_trigger_time)
       THEN lt' = [lt EXCEPT ![t].pc = "accepted", ![t].now = clock]
       ELSE lt' = [lt EXCEPT ![t] = IF t = "kb" THEN IdleThread
                                    ELSE [@ EXCEPT !.pc = "set_last"]]
    /\ hist' = [hist EXCEPT !.dropped =
                    @ \/ ~should_trigger_test(clock, hk.last_trigger_time)]
    /\ wc' = wc /\ call' = NoCall
    /\ ret' = NoRet
    /\ UNCHANGED <<hk, os, pump, down, repeat_key, clock, callback_threads>>

\* self.last_trigger_time = current_time; return True; _trigger_callback().
Accepted(t) ==
    /\ lt[t].pc = "accepted"
    /\ callback_threads < MaxCallbacks
    /\ hk' = [hk EXCEPT !.last_trigger_time = lt[t].now]
    /\ callback_threads' = trigger_callback(callback_threads)
    /\ hist' = HistAccept(lt[t].now, lt[t].hold)
    /\ lt' = [lt EXCEPT ![t] = IF t = "kb" THEN IdleThread
                               ELSE [@ EXCEPT !.pc = "set_last", !.now = 0]]
    /\ wc' = wc /\ call' = NoCall
    /\ ret' = NoRet
    /\ UNCHANGED <<os, pump, down, repeat_key, clock>>

\* self.last_combo_state = combo_active
SetLastComboState(t) ==
    /\ t \in {"key", "mouse"}
    /\ lt[t].pc = "set_last"
    /\ hk' = [hk EXCEPT !.last_combo_state = lt[t].combo_active]
    /\ lt' = [lt EXCEPT ![t] = IdleThread]
    /\ wc' = wc /\ call' = NoCall
    /\ ret' = NoRet
    /\ UNCHANGED <<os, pump, down, repeat_key, clock, callback_threads, hist>>

(***************************************************************************)
(* HotkeyManager._win32_hotkey_thread, one step at a time.                 *)
(***************************************************************************)
\* win32gui.RegisterHotKey(None, hotkey_id, modifiers, vk_code).  The OS
\* refuses a combination that is registered already, by another thread of
\* this process or by another program (claimed).
PumpRegister(p, claimed) ==
    /\ pump[p].pc = "register"
    /\ IF claimed \/ \E q \in PumpIds \ {p} :
                        Registered(q) /\ pump[q].vk = pump[p].vk /\ pump[q].mods = pump[p].mods
       THEN \* print("Failed to register Win32 hotkey"); return
            pump' = [pump EXCEPT ![p] = NoPump]
       ELSE pump' = [pump EXCEPT ![p].pc = "loop"]
    /\ wc' = wc /\ call' = NoCall
    /\ ret' = NoRet
    /\ UNCHANGED <<hk, os, lt, down, repeat_key, clock, callback_threads, hist>>

\* while not self.stop_thread: ... finally: UnregisterHotKey
PumpLoop(p) ==
    /\ pump[p].pc = "loop"
    /\ IF hk.stop_thread
       THEN pump' = [pump EXCEPT ![p] = NoPump]
       ELSE pump' = [pump EXCEPT ![p].pc = "get_message"]
    /\ wc' = wc /\ call' = NoCall
    /\ ret' = NoRet
    /\ UNCHANGED <<hk, os, lt, down, repeat_key, clock, callback_threads, hist>>

\* msg = win32gui.GetMessage(None, 0, 0) returns the WM_HOTKEY posted to the
\* thread; the call blocks until a message is there.
PumpGetMessage(p) ==
    /\ pump[p].pc = "get_message"
    /\ pump[p].msg
    /\ pump' = [pump EXCEPT ![p].pc = "should_trigger", ![p].msg = FALSE]
    /\ wc' = wc /\ call' = NoCall
    /\ ret' = NoRet
    /\ UNCHANGED <<hk, os, lt, down, repeat_key, clock, callback_threads, hist>>

\* GetMessage returns a message that is not WM_HOTKEY, or raises (the bare
\* except: time.sleep(0.01)): back to the test of the loop.
PumpOtherMessage(p) ==
    /\ pump[p].pc = "get_message"
    /\ ~pump[p].msg
    \* while the flag is clear the loop comes straight back to GetMessage
    /\ hk.stop_thread
    /\ pump' = [pump EXCEPT ![p].pc = "loop"]
    /\ wc' = wc /\ call' = NoCall
    /\ ret' = NoRet
    /\ UNCHANGED <<hk, os, lt, down, repeat_key, clock, callback_threads, hist>>

PumpShouldTrigger(p) ==
    /\ pump[p].pc = "should_trigger"
    /\ IF should_trigger_test(clock, hk.last_trigger_time)
       THEN pump' = [pump EXCEPT ![p].pc = "accepted", ![p].now = clock]
       ELSE pump' = [pump EXCEPT ![p].pc = "loop", ![p].hold = FALSE]
    /\ hist' = [hist EXCEPT !.dropped =
                    @ \/ ~should_trigger_test(clock, hk.last_trigger_time)]
    /\ wc' = wc /\ call' = NoCall
    /\ ret' = NoRet
    /\ UNCHANGED <<hk, os, lt, down, repeat_key, clock, callback_threads>>

PumpAccepted(p) ==
    /\ pump[p].pc = "accepted"
    /\ callback_threads < MaxCallbacks
    /\ hk' = [hk EXCEPT !.last_trigger_time = pump[p].now]
    /\ callback_threads' = trigger_callback(callback_threads)
    /\ hist' = HistAccept(pump[p].now, pump[p].hold)
    /\ pump' = [pump EXCEPT ![p].pc = "loop", ![p].now = 0, ![p].hold = FALSE]
    /\ wc' = wc /\ call' = NoCall
    /\ ret' = NoRet
    /\ UNCHANGED <<os, lt, down, repeat_key, clock>>

(***************************************************************************)
(* Time passes.                                                            *)
(***************************************************************************)
Tick ==
    /\ clock < min_trigger_interval + MaxTicks * TickMs
    /\ clock' = clock + TickMs
    /\ wc' = wc /\ call' = NoCall
    /\ ret' = NoRet
    /\ UNCHANGED <<hk, os, pump, lt, down, repeat_key, callback_threads, hist>>

\* No capture thread is inside a handler and no hotkey message is pending.
Quiescent ==
    /\ \A t \in LibThreads : lt[t].pc = "idle"
    /\ \A p \in PumpIds : pump[p].pc \in {"none", "get_message"} /\ ~pump[p].msg

\* The capture threads' steps.
LibraryThreadStep ==
    \E t \in LibThreads :
        CheckCombo(t) \/ ShouldTrigger(t) \/ Accepted(t) \/ SetLastComboState(t)

PumpStartStep ==
    \/ \E p \in PumpIds, claimed \in BOOLEAN : PumpRegister(p, claimed)
    \/ \E p \in PumpIds : PumpLoop(p)

PumpTriggerStep ==
    \E p \in PumpIds : PumpGetMessage(p) \/ PumpShouldTrigger(p) \/ PumpAccepted(p)

(***************************************************************************)
(* Spec: a session.  The application configures the hotkey once; the user  *)
(* works the keys and buttons of the combo; the capture threads run; time  *)
(* passes.                                                                 *)
(***************************************************************************)
Next ==
    \/ \E config \in Combos : FirstSetHotkey(config)
    \/ \E k \in PhysKeys \cup PhysButtons : Press(k) \/ Release(k) \/ Repeat(k)
    \/ LibraryThreadStep
    \/ PumpStartStep
    \/ PumpTriggerStep
    \/ Tick

Spec == Init /\ [][Next]_vars

(***************************************************************************)
(* LifecycleSpec: the application configures, reconfigures and stops the   *)
(* engine at will while the pump threads start, block in GetMessage and    *)
(* are woken; no key is touched.                                           *)
(***************************************************************************)
LifecycleNext ==
    \/ \E config \in Combos : SetHotkey(config)
    \/ StopListening
    \/ PumpStartStep
    \/ \E p \in PumpIds : PumpOtherMessage(p)

LifecycleSpec == Init /\ [][LifecycleNext]_vars

(***************************************************************************)
(* LifecycleFairSpec: LifecycleSpec with the scheduler's fairness.  A pump *)
(* thread that can run its own code (register, test the stop flag) gets to *)
(* run it.  Whether a message arrives to end a GetMessage call is up to    *)
(* the OS and the user, so PumpOtherMessage carries no fairness.           *)
(***************************************************************************)
PumpRuns(p) ==
    \/ \E claimed \in BOOLEAN : PumpRegister(p, claimed)
    \/ PumpLoop(p)

LifecycleFairSpec ==
    /\ LifecycleSpec
    /\ \A p \in PumpIds : WF_vars(PumpRuns(p))

(***************************************************************************)
(* StopSpec: a session in which the application also stops the engine.     *)
(* stop_listening is called while every capture thread is at rest (no      *)
(* handler running, no hotkey message pending), so whatever is dispatched  *)
(* after it stems from input that came after it.                           *)
(***************************************************************************)
QuietStopListening ==
    /\ hk.is_listening
    /\ Quiescent
    /\ StopListening

StopNext ==
    \/ \E config \in Combos : FirstSetHotkey(config)
    \/ QuietStopListening
    \/ \E k \in PhysKeys \cup PhysButtons : Press(k) \/ Release(k) \/ Repeat(k)
    \/ LibraryThreadStep
    \/ PumpStartStep
    \/ \E p \in PumpIds : PumpOtherMessage(p)
    \/ PumpTriggerStep
    \/ Tick

StopSpec == Init /\ [][StopNext]_vars

(***************************************************************************)
(* WindowCycler (src/core/window_cycler.py).  A GameWindow is known by its *)
(* handle and its order; whether a handle is a live, visible window is the *)
(* OS's answer at the time of the call (valid: the handles it says yes     *)
(* to), and so is whether an activation succeeds (activates: the answer to *)
(* each successive attempt of the call).  The notification handlers are    *)
(* taken as set: what a call fires is recorded in call.                    *)
(***************************************************************************)
GameWindow(hwnd, order) == [hwnd |-> hwnd, order |-> order]

\* The windows the detection finds: A, B and C, with C in the order after B
\* or in B's.
GameWindows ==
    {GameWindow("A", 1), GameWindow("B", 2), GameWindow("C", 3), GameWindow("C", 2)}

Handles == {w.hwnd : w \in GameWindows}

\* The lists a caller hands to set_windows: the detection lists a handle
\* once.
WindowLists ==
    UNION {{l \in [1 .. n -> GameWindows] :
               \A i, j \in 1 .. n : i # j => l[i].hwnd # l[j].hwnd} :
           n \in 0 .. MaxWindows}

\* The answers of the OS to the activations of one call on n windows: the
\* loop of cycle_next makes at most n attempts.
Activations(n) == [1 .. n -> BOOLEAN]

HandlesOf(windows) == {windows[i].hwnd : i \in DOMAIN windows}

\* is_valid_handle answering yes for every handle.
IsValidHandleAlways(window, valid) == TRUE

is_valid_handle(window, valid) == window.hwnd \in valid

\* list.pop(index)
Pop(s, index) ==
    [i \in 1 .. Len(s) - 1 |-> IF i <= index THEN s[i] ELSE s[i + 1]]

\* list.insert(at, x), at counted from 0
Insert(s, at, x) ==
    [i \in 1 .. Len(s) + 1 |-> IF i <= at THEN s[i] ELSE IF i = at + 1 THEN x ELSE s[i - 1]]

\* sorted(windows, key=lambda w: w.order) as an unstable sort would do it:
\* a window goes before the windows of its own order.
RECURSIVE SortedUnstable(_)
SortedUnstable(windows) ==
    IF windows = <<>> THEN <<>>
    ELSE LET n    == Len(windows)
             head == SortedUnstable(SubSeq(windows, 1, n - 1))
             x    == windows[n]
             at   == Cardinality({i \in DOMAIN head : head[i].order < x.order})
         IN  Insert(head, at, x)

\* sorted(windows, key=lambda w: w.order): Python's sort is stable, each
\* window goes after the windows of a lower or equal order supplied before it.
RECURSIVE sorted(_)
sorted(windows) ==
    IF windows = <<>> THEN <<>>
    ELSE LET n    == Len(windows)
             head == sorted(SubSeq(windows, 1, n - 1))
             x    == windows[n]
             at   == Cardinality({i \in DOMAIN head : head[i].order <= x.order})
         IN  Insert(head, at, x)

\* set_windows dropping the list it has when no supplied window is valid.
SetWindowsClearing(c, windows, valid) ==
    IF windows = <<>> THEN [wc |-> c, result |-> FALSE]
    ELSE LET valid_windows == SelectSeq(windows, LAMBDA w : is_valid_handle(w, valid))
         IN  IF valid_windows = <<>>
             THEN [wc |-> [c EXCEPT !.windows = <<>>, !.current_index = 0],
                   result |-> FALSE]
             ELSE [wc |-> [c EXCEPT !.windows = sorted(valid_windows),
                                    !.current_index = 0],
                   result |-> TRUE]

\* WindowCycler.set_windows: the cycler afterwards and the value returned.
set_windows(c, windows, valid) ==
    IF windows = <<>> THEN [wc |-> c, result |-> FALSE]
    ELSE LET valid_windows == SelectSeq(windows, LAMBDA w : is_valid_handle(w, valid))
         IN  IF valid_windows = <<>> THEN [wc |-> c, result |-> FALSE]
             ELSE [wc |-> [c EXCEPT !.windows = sorted(valid_windows),
                                    !.current_index = 0],
                   result |-> TRUE]

\* A call in progress: the cycler, the hotkey engine's world, and what the
\* call has fired so far.
Run(c, w, op) ==
    [ wc |-> c, w |-> w,
      call |-> [NoCall EXCEPT !.op = op, !.outcome = "return"] ]

\* WindowCycler.start_cycling
start_cycling(r) ==
    IF r.wc.windows = <<>> THEN r
    ELSE IF ~r.w.hk.is_listening THEN r
    ELSE [r EXCEPT !.call.result = TRUE]

\* WindowCycler.stop_cycling
stop_cycling(r) ==
    [r EXCEPT !.w = stop_listening(r.w),
              !.call.stopped = @ + 1]

\* _remove_invalid_window leaving the window in the list.
RemoveInvalidWindowKeeping(r, index) == r

\* _remove_invalid_window leaving the cursor where it was.
RemoveInvalidWindowWithoutReset(r, index) ==
    IF 0 <= index /\ index < Len(r.wc.windows)
    THEN [r EXCEPT !.wc.windows = Pop(r.wc.windows, index),
                   !.call.removed = Append(@, r.wc.windows[index + 1])]
    ELSE r

\* WindowCycler._remove_invalid_window, index counted from 0
remove_invalid_window(r, index) ==
    IF 0 <= index /\ index < Len(r.wc.windows)
    THEN LET removed_window == r.wc.windows[index + 1]
             windows == Pop(r.wc.windows, index)
         IN  [r EXCEPT !.wc.windows = windows,
                       !.wc.current_index =
                           IF r.wc.current_index >= Len(windows) /\ windows # <<>>
                           THEN 0 ELSE @,
                       !.call.removed = Append(@, removed_window)]
    ELSE r

\* _activate_window trusting the answer although there is no Windows API.
ActivateWindowWithoutApi(r, window, answer) == answer

\* WindowCycler._activate_window: without the Windows API it fails.
activate_window(r, window, answer) ==
    IF ~r.w.hk.windows_api THEN FALSE ELSE answer

\* The while loop of cycle_next, were a removal to use up an attempt.
RECURSIVE CycleLoopCountingRemovals(_, _, _, _, _)
CycleLoopCountingRemovals(r, attempts, max_attempts, valid, activates) ==
    IF attempts >= max_attempts THEN r
    ELSE LET r1 == IF r.wc.current_index >= Len(r.wc.windows)
                   THEN [r EXCEPT !.wc.current_index = 0] ELSE r
             window == r1.wc.windows[r1.wc.current_index + 1]
         IN  IF ~is_valid_handle(window, valid)
             THEN LET r2 == remove_invalid_window(r1, r1.wc.current_index)
                  IN  IF r2.wc.windows = <<>> THEN stop_cycling(r2)
                      ELSE CycleLoopCountingRemovals(r2, attempts + 1, max_attempts,
                                                     valid, activates)
             ELSE LET success == activate_window(r1, window, activates[attempts + 1])
                      r3 == [r1 EXCEPT !.call.attempted = Append(@, window)]
                      next_index == (r1.wc.current_index + 1) % Len(r1.wc.windows)
                  IN  IF success
                      THEN [r3 EXCEPT !.wc.successful_activations = @ + 1,
                                      !.wc.current_index = next_index,
                                      !.call.activated = Append(@, window)]
                      ELSE CycleLoopCountingRemovals(
                               [r3 EXCEPT !.wc.failed_activations = @ + 1,
                                          !.wc.current_index = next_index],
                               attempts + 1, max_attempts, valid, activates)

\* The while loop of cycle_next, were a failed activation to leave the
\* cursor where it is.
RECURSIVE CycleLoopStayingOnFailure(_, _, _, _, _)
CycleLoopStayingOnFailure(r, attempts, max_attempts, valid, activates) ==
    IF attempts >= max_attempts THEN r
    ELSE LET r1 == IF r.wc.current_index >= Len(r.wc.windows)
                   THEN [r EXCEPT !.wc.current_index = 0] ELSE r
             window == r1.wc.windows[r1.wc.current_index + 1]
         IN  IF ~is_valid_handle(window, valid)
             THEN LET r2 == remove_invalid_window(r1, r1.wc.current_index)
                  IN  IF r2.wc.windows = <<>> THEN stop_cycling(r2)
                      ELSE CycleLoopStayingOnFailure(r2, attempts, max_attempts,
                                                     valid, activates)
             ELSE LET success == activate_window(r1, window, activates[attempts + 1])
                      r3 == [r1 EXCEPT !.call.attempted = Append(@, window)]
                      next_index == (r1.wc.current_index + 1) % Len(r1.wc.windows)
                  IN  IF success
                      THEN [r3 EXCEPT !.wc.successful_activations = @ + 1,
                                      !.wc.current_index = next_index,
                                      !.call.activated = Append(@, window)]
                      ELSE CycleLoopStayingOnFailure(
                               [r3 EXCEPT !.wc.failed_activations = @ + 1],
                               attempts + 1, max_attempts, valid, activates)

\* The while loop of cycle_next.
RECURSIVE cycle_loop(_, _, _, _, _)
cycle_loop(r, attempts, max_attempts, valid, activates) ==
    IF attempts >= max_attempts THEN r
    ELSE LET r1 == IF r.wc.current_index >= Len(r.wc.windows)
                   THEN [r EXCEPT !.wc.current_index = 0] ELSE r
             window == r1.wc.windows[r1.wc.current_index + 1]
         IN  IF ~is_valid_handle(window, valid)
             THEN LET r2 == remove_invalid_window(r1, r1.wc.current_index)
                  IN  IF r2.wc.windows = <<>> THEN stop_cycling(r2)
                      ELSE cycle_loop(r2, attempts, max_attempts, valid, activates)
             ELSE LET success == activate_window(r1, window, activates[attempts + 1])
                      r3 == [r1 EXCEPT !.call.attempted = Append(@, window)]
                      next_index == (r1.wc.current_index + 1) % Len(r1.wc.windows)
                  IN  IF success
                      THEN [r3 EXCEPT !.wc.successful_activations = @ + 1,
                                      !.wc.current_index = next_index,
                                      !.call.activated = Append(@, window)]
                      ELSE cycle_loop([r3 EXCEPT !.wc.failed_activations = @ + 1,
                                                 !.wc.current_index = next_index],
                                      attempts + 1, max_attempts, valid, activates)

\* cycle_next starting every call at the first window.
CycleNextFromFirst(c, w, valid, activates) ==
    IF c.windows = <<>> THEN Run(c, w, "cycle_next")
    ELSE cycle_loop(Run([c EXCEPT !.total_cycles = @ + 1, !.current_index = 0],
                        w, "cycle_next"),
                    0, Len(c.windows), valid, activates)

\* WindowCycler.cycle_next
cycle_next(c, w, valid, activates) ==
    IF c.windows = <<>> THEN Run(c, w, "cycle_next")
    ELSE cycle_loop(Run([c EXCEPT !.total_cycles = @ + 1], w, "cycle_next"),
                    0, Len(c.windows), valid, activates)

\* The character each window shows (GameWindow.character_name).
character_name(window) ==
    CASE window.hwnd = "A" -> "Cra"
      [] window.hwnd = "B" -> "Iop"
      [] OTHER             -> "IOP"

\* str.lower, on the names and words in use.
Lower(name) ==
    CASE name \in {"Iop", "IOP", "iop"} -> "iop"
      [] name \in {"Cra", "CRA", "cra"} -> "cra"
      [] name \in {"Eni", "eni"}        -> "eni"
      [] name \in {"Alt", "ALT", "alt"} -> "alt"
      [] OTHER                          -> name

\* The names cycle_to_character is asked for.
CharacterKeys == {"iop", "CRA", "eni"}

\* cycle_to_specific without the validity test.
CycleToSpecificUnchecked(c, w, window_index, valid, answer) ==
    LET r == Run(c, w, "cycle_to_specific")
    IN  IF c.windows = <<>> \/ window_index < 0 \/ window_index >= Len(c.windows)
        THEN r
        ELSE LET window  == c.windows[window_index + 1]
                 success == activate_window(r, window, answer)
                 r1 == [r EXCEPT !.call.attempted = Append(@, window),
                                 !.call.result = success]
             IN  IF success
                 THEN [r1 EXCEPT !.wc.current_index = window_index,
                                 !.call.activated = Append(@, window)]
                 ELSE r1

\* WindowCycler.cycle_to_specific
cycle_to_specific(c, w, window_index, valid, answer) ==
    LET r == Run(c, w, "cycle_to_specific")
    IN  IF c.windows = <<>> \/ window_index < 0 \/ window_index >= Len(c.windows)
        THEN r
        ELSE LET window == c.windows[window_index + 1]
             IN  IF ~is_valid_handle(window, valid)
                 THEN remove_invalid_window(r, window_index)
                 ELSE LET success == activate_window(r, window, answer)
                          r1 == [r EXCEPT !.call.attempted = Append(@, window),
                                          !.call.result = success]
                      IN  IF success
                          THEN [r1 EXCEPT !.wc.current_index = window_index,
                                          !.call.activated = Append(@, window)]
                          ELSE r1

\* WindowCycler.cycle_to_character
cycle_to_character(c, w, name, valid, answer) ==
    LET found == {i \in DOMAIN c.windows :
                     Lower(character_name(c.windows[i])) = Lower(name)}
        r == IF found = {} THEN Run(c, w, "cycle_to_character")
             ELSE LET i == CHOOSE j \in found : \A k \in found : j <= k
                  IN  cycle_to_specific(c, w, i - 1, valid, answer)
    IN  [r EXCEPT !.call.op = "cycle_to_character"]

\* The for loop of refresh_window_validity, were it to pass over the
\* window before a removed one.
RECURSIVE RefreshFromSkipping(_, _, _)
RefreshFromSkipping(r, i, valid) ==
    IF i < 0 THEN r
    ELSE IF ~is_valid_handle(r.wc.windows[i + 1], valid)
         THEN RefreshFromSkipping(remove_invalid_window(r, i), i - 2, valid)
         ELSE RefreshFromSkipping(r, i - 1, valid)

\* The for loop of refresh_window_validity, from index i down to 0.
RECURSIVE refresh_from(_, _, _)
refresh_from(r, i, valid) ==
    IF i < 0 THEN r
    ELSE IF ~is_valid_handle(r.wc.windows[i + 1], valid)
         THEN refresh_from(remove_invalid_window(r, i), i - 1, valid)
         ELSE refresh_from(r, i - 1, valid)

\* WindowCycler.refresh_window_validity
refresh_window_validity(c, w, valid) ==
    refresh_from(Run(c, w, "refresh_window_validity"), Len(c.windows) - 1, valid)

\* WindowCycler.reorder_windows: new_order lists indexes counted from 0.
reorder_windows(c, w, new_order) ==
    LET r == Run(c, w, "reorder_windows")
    IN  IF Len(new_order) # Len(c.windows) THEN r
        ELSE IF \E i \in DOMAIN new_order :
                    ~(0 <= new_order[i] /\ new_order[i] < Len(c.windows)) THEN r
        ELSE [r EXCEPT !.wc.windows = [i \in DOMAIN new_order |-> c.windows[new_order[i] + 1]],
                       !.wc.current_index = 0,
                       !.call.result = TRUE]

\* What the hotkey engine's actions leave alone when the cycler acts.
EngineRest == <<pump, lt, down, repeat_key, clock, callback_threads>>

SetWindows(windows, valid) ==
    /\ LET r == set_windows(wc, windows, valid)
       IN  /\ wc' = r.wc
           /\ call' = [NoCall EXCEPT !.op = "set_windows", !.outcome = "return",
                                     !.result = r.result,
                                     !.supplied =
                                         SelectSeq(windows, LAMBDA w : w.hwnd \in valid)]
    /\ ret' = NoRet
    /\ UNCHANGED <<hk, os, hist, EngineRest>>

CycleNext(valid, activates) ==
    /\ LET r == cycle_next(wc, World, valid, activates)
       IN  /\ wc' = r.wc
           /\ call' = [r.call EXCEPT !.valid = valid \cap HandlesOf(wc.windows)]
           /\ hk' = r.w.hk
           /\ os' = r.w.os
    /\ ret' = NoRet
    /\ hist' = [hist EXCEPT !.owed = FALSE]
    /\ UNCHANGED EngineRest

StopCycling ==
    /\ LET r == stop_cycling(Run(wc, World, "stop_cycling"))
       IN  /\ wc' = r.wc
           /\ call' = r.call
           /\ hk' = r.w.hk
           /\ os' = r.w.os
    /\ ret' = NoRet
    /\ hist' = [hist EXCEPT !.owed = FALSE]
    /\ UNCHANGED EngineRest

ReorderWindows(new_order) ==
    /\ LET r == reorder_windows(wc, World, new_order)
       IN  /\ wc' = r.wc
           /\ call' = r.call
    /\ ret' = NoRet
    /\ UNCHANGED <<hk, os, hist, EngineRest>>

StartCycling ==
    /\ LET r == start_cycling(Run(wc, World, "start_cycling"))
       IN  /\ wc' = r.wc
           /\ call' = r.call
           /\ hk' = r.w.hk
           /\ os' = r.w.os
    /\ ret' = NoRet
    /\ UNCHANGED <<hist, EngineRest>>

CycleToSpecific(window_index, valid, answer) ==
    /\ LET r == cycle_to_specific(wc, World, window_index, valid, answer)
       IN  /\ wc' = r.wc
           /\ call' = [r.call EXCEPT !.index = window_index,
                                     !.valid = valid \cap HandlesOf(wc.windows),
                                     !.answer = answer]
    /\ ret' = NoRet
    /\ UNCHANGED <<hk, os, hist, EngineRest>>

CycleToCharacter(name, valid, answer) ==
    /\ LET r == cycle_to_character(wc, World, name, valid, answer)
       IN  /\ wc' = r.wc
           /\ call' = [r.call EXCEPT !.key = name,
                                     !.valid = valid \cap HandlesOf(wc.windows),
                                     !.answer = answer]
    /\ ret' = NoRet
    /\ UNCHANGED <<hk, os, hist, EngineRest>>

RefreshWindowValidity(valid) ==
    /\ LET r == refresh_window_validity(wc, World, valid)
       IN  /\ wc' = r.wc
           /\ call' = [r.call EXCEPT !.valid = valid \cap HandlesOf(wc.windows)]
    /\ ret' = NoRet
    /\ UNCHANGED <<hk, os, hist, EngineRest>>

(***************************************************************************)
(* CyclerSpec: the application works the cycler from one thread, on a      *)
(* machine without the keyboard library and without pynput.  It sets the   *)
(* window list, binds the hotkey (WindowCycler.set_hotkey hands cycle_next *)
(* to the engine's set_hotkey), triggers cycle_next and stops, in any      *)
(* order; windows die and activations fail as the OS has it.               *)
(***************************************************************************)
CyclerInit ==
    /\ Init
    /\ ~hk.keyboard_available
    /\ ~hk.pynput_available

CyclerCombo == [modifiers |-> <<"ctrl">>, main_key |-> "f5"]

\* The calls of a behaviour, until MaxCycles triggers have found a list.
CyclerSetWindows(windows, valid) ==
    /\ wc.total_cycles < MaxCycles
    /\ SetWindows(windows, valid)

\* Only the answers the call can ask for are drawn: the validity of the
\* listed windows, and one activation answer for each attempt it can make.
CyclerCycleNext(valid, activates) ==
    /\ wc.total_cycles < MaxCycles
    /\ CycleNext(valid, activates)

CyclerNext ==
    \/ \E windows \in WindowLists :
           \E valid \in SUBSET HandlesOf(windows) : CyclerSetWindows(windows, valid)
    \/ \E valid \in SUBSET HandlesOf(wc.windows) :
           \E activates \in Activations(Len(wc.windows)) : CyclerCycleNext(valid, activates)
    \/ FirstSetHotkey(CyclerCombo)
    \/ StopCycling

CyclerSpec == CyclerInit /\ [][CyclerNext]_vars

(***************************************************************************)
(* RoundRobinSpec: the hotkey is bound and cycle_next triggered again and  *)
(* again over a list set once, on a machine with the Windows API, while    *)
(* every window stays valid and every activation succeeds.                 *)
(***************************************************************************)
RoundRobinInit ==
    /\ CyclerInit
    /\ hk.windows_api

AllSucceed(n) == [i \in 1 .. n |-> TRUE]

RoundSetWindows(windows) ==
    /\ wc.windows = <<>>
    /\ wc.total_cycles = 0
    /\ SetWindows(windows, HandlesOf(windows))

RoundCycleNext ==
    /\ wc.total_cycles < MaxRounds
    /\ CycleNext(HandlesOf(wc.windows), AllSucceed(Len(wc.windows)))

RoundRobinNext ==
    \/ FirstSetHotkey(CyclerCombo)
    \/ \E windows \in WindowLists : RoundSetWindows(windows)
    \/ RoundCycleNext

RoundRobinSpec == RoundRobinInit /\ [][RoundRobinNext]_vars

(***************************************************************************)
(* ClosedWindowSpec: as RoundRobinSpec, but the window B is closed after   *)
(* the list was set and stays closed: every trigger finds each listed      *)
(* window valid except B.                                                  *)
(***************************************************************************)
ClosedHandles == {"B"}

ClosedCycleNext ==
    /\ wc.total_cycles < MaxRounds
    /\ CycleNext(HandlesOf(wc.windows) \ ClosedHandles, AllSucceed(Len(wc.windows)))

ClosedWindowNext ==
    \/ FirstSetHotkey(CyclerCombo)
    \/ \E windows \in WindowLists : RoundSetWindows(windows)
    \/ ClosedCycleNext

ClosedWindowSpec == RoundRobinInit /\ [][ClosedWindowNext]_vars

(***************************************************************************)
(* DirectSpec: the application sets the window list and then, from one     *)
(* thread, jumps to windows by index and by character name and refreshes   *)
(* the list's validity, in any order; windows die and activations fail as  *)
(* the OS has it.  No trigger is taken, so the counters stay as set.       *)
(***************************************************************************)
\* The indexes cycle_to_specific is asked for: every position of the
\* longest list, one below and one above.
WindowIndexes == (0 - 1) .. MaxWindows

DirectNext ==
    \/ \E windows \in WindowLists :
           \E valid \in SUBSET HandlesOf(windows) : SetWindows(windows, valid)
    \/ \E window_index \in WindowIndexes :
           \E valid \in SUBSET HandlesOf(wc.windows) :
               \E answer \in BOOLEAN : CycleToSpecific(window_index, valid, answer)
    \/ \E name \in CharacterKeys :
           \E valid \in SUBSET HandlesOf(wc.windows) :
               \E answer \in BOOLEAN : CycleToCharacter(name, valid, answer)
    \/ \E valid \in SUBSET HandlesOf(wc.windows) : RefreshWindowValidity(valid)

DirectSpec == CyclerInit /\ [][DirectNext]_vars

(***************************************************************************)
(* StartStopSpec: the application sets the window list once, binds the     *)
(* hotkey, and starts and stops the cycling at will, while the pump thread *)
(* of the win32 method starts, blocks in GetMessage and is woken.          *)
(***************************************************************************)
StartStopNext ==
    \/ \E windows \in WindowLists : RoundSetWindows(windows)
    \/ FirstSetHotkey(CyclerCombo)
    \/ StartCycling
    \/ StopCycling
    \/ PumpStartStep
    \/ \E p \in PumpIds : PumpOtherMessage(p)

StartStopSpec == CyclerInit /\ [][StartStopNext]_vars

(***************************************************************************)
(* ThreadsSpec: cycle_next, cycle_to_specific and refresh_window_validity  *)
(* taken statement by statement on two threads: a thread the hotkey engine *)
(* spawned for a trigger (hotkey_manager.py line 444), which runs          *)
(* cycle_next, and the application's own thread, which calls any of the    *)
(* three.  WindowCycler holds no lock, so the statements of the two calls  *)
(* interleave freely.  Each thread makes one call on a list set before.    *)
(* A frame holds a call's locals: pc the statement it is at, index the     *)
(* window_index or loop variable i, window the window it fetched, tmp the  *)
(* counter value it loaded, counted whether it has stored total_cycles,    *)
(* error the exception that ended it, entry_len the length of the list     *)
(* when the call was entered, activations the activations it has tried.    *)
(***************************************************************************)
CyclerThreads == {"callback", "caller"}

NoWindow == [hwnd |-> "", order |-> 0]

OpsOf(t) ==
    IF t = "callback" THEN {"cycle_next"}
    ELSE {"cycle_next", "cycle_to_specific", "refresh_window_validity"}

Frame(op, index) ==
    [ op |-> op, pc |-> "entry", index |-> index, attempts |-> 0, max_attempts |-> 0,
      window |-> NoWindow, tmp |-> 0, counted |-> FALSE, error |-> "none",
      entry_len |-> Len(wc.windows), activations |-> 0 ]

\* The thread t is at the statement pc of a call of op.
At(t, op, pc) ==
    /\ t \in DOMAIN call.frames
    /\ call.frames[t].op = op
    /\ call.frames[t].pc = pc

\* The thread t has run a statement that left the cycler as c and its own
\* frame as f.
ThreadStep(t, c, f) ==
    /\ wc' = c
    /\ call' = [call EXCEPT !.frames = [u \in DOMAIN call.frames |->
                                            IF u = t THEN f ELSE call.frames[u]]]
    /\ ret' = NoRet
    /\ UNCHANGED <<hk, os, hist, EngineRest>>

Raised(f, error) == [f EXCEPT !.pc = "raised", !.error = error]

\* A thread enters its call.
ThreadCall(t, op, index) ==
    /\ wc.windows # <<>>
    /\ t \notin DOMAIN call.frames
    /\ wc' = wc
    /\ call' = [NoCall EXCEPT !.op = "threads",
                              !.frames = [u \in DOMAIN call.frames \cup {t} |->
                                             IF u = t THEN Frame(op, index)
                                             ELSE call.frames[u]]]
    /\ ret' = NoRet
    /\ UNCHANGED <<hk, os, hist, EngineRest>>

\* cycle_next, lines 82-84: the test of the empty list.
CnEntry(t) ==
    /\ At(t, "cycle_next", "entry")
    /\ ThreadStep(t, wc, [call.frames[t] EXCEPT
                             !.pc = IF wc.windows = <<>> THEN "done" ELSE "count_load"])

\* line 86, the load of self.total_cycles += 1
CnCountLoad(t) ==
    /\ At(t, "cycle_next", "count_load")
    /\ ThreadStep(t, wc, [call.frames[t] EXCEPT !.tmp = wc.total_cycles,
                                                !.pc = "count_store"])

\* line 86, the store, and lines 87-88
CnCountStore(t) ==
    /\ At(t, "cycle_next", "count_store")
    /\ ThreadStep(t, [wc EXCEPT !.total_cycles = call.frames[t].tmp + 1],
                  [call.frames[t] EXCEPT !.counted = TRUE,
                                         !.max_attempts = Len(wc.windows),
                                         !.attempts = 0,
                                         !.pc = "loop"])

\* lines 90-93: the loop test and the cursor brought into range
CnLoop(t) ==
    /\ At(t, "cycle_next", "loop")
    /\ LET f == call.frames[t]
       IN  IF f.attempts >= f.max_attempts
           THEN ThreadStep(t, wc, [f EXCEPT !.pc = "done"])
           ELSE ThreadStep(t, [wc EXCEPT !.current_index =
                                      IF @ >= Len(wc.windows) THEN 0 ELSE @],
                           [f EXCEPT !.pc = "fetch"])

\* line 95: window = self.windows[self.current_index]
CnFetch(t) ==
    /\ At(t, "cycle_next", "fetch")
    /\ LET f == call.frames[t]
       IN  IF wc.current_index >= Len(wc.windows)
           THEN ThreadStep(t, wc, Raised(f, "IndexError"))
           ELSE ThreadStep(t, wc, [f EXCEPT !.window = wc.windows[wc.current_index + 1],
                                            !.pc = "valid"])

\* line 98: window.is_valid_handle()
CnValid(t, valid) ==
    /\ At(t, "cycle_next", "valid")
    /\ ThreadStep(t, wc, [call.frames[t] EXCEPT
                             !.pc = IF valid THEN "activate" ELSE "remove"])

\* lines 100-109: the removal; stop_cycling when it emptied the list
CnRemove(t) ==
    /\ At(t, "cycle_next", "remove")
    /\ LET r == remove_invalid_window(Run(wc, World, "cycle_next"), wc.current_index)
           s == IF r.wc.windows = <<>> THEN stop_cycling(r) ELSE r
       IN  /\ wc' = s.wc
           /\ hk' = s.w.hk
           /\ os' = s.w.os
           /\ call' = [call EXCEPT !.frames = [u \in DOMAIN call.frames |->
                          IF u = t
                          THEN [call.frames[t] EXCEPT
                                   !.pc = IF r.wc.windows = <<>> THEN "done" ELSE "loop"]
                          ELSE call.frames[u]]]
    /\ ret' = NoRet
    /\ UNCHANGED <<hist, EngineRest>>

\* lines 112-116 and 125-127: the activation and its counter
CnActivate(t, answer) ==
    /\ At(t, "cycle_next", "activate")
    /\ LET f == call.frames[t]
           success == activate_window(Run(wc, World, "cycle_next"), f.window, answer)
       IN  IF success
           THEN ThreadStep(t, [wc EXCEPT !.successful_activations = @ + 1],
                           [f EXCEPT !.pc = "advance_return", !.activations = @ + 1])
           ELSE ThreadStep(t, [wc EXCEPT !.failed_activations = @ + 1],
                           [f EXCEPT !.pc = "advance", !.activations = @ + 1])

\* lines 119-124 and 130-131: the cursor moved on, modulo the list's length
CnAdvance(t) ==
    /\ t \in DOMAIN call.frames
    /\ call.frames[t].op = "cycle_next"
    /\ call.frames[t].pc \in {"advance", "advance_return"}
    /\ LET f == call.frames[t]
       IN  IF Len(wc.windows) = 0
           THEN ThreadStep(t, wc, Raised(f, "ZeroDivisionError"))
           ELSE ThreadStep(t, [wc EXCEPT !.current_index = (@ + 1) % Len(wc.windows)],
                           IF f.pc = "advance_return"
                           THEN [f EXCEPT !.pc = "done"]
                           ELSE [f EXCEPT !.attempts = @ + 1, !.pc = "loop"])

\* cycle_to_specific, lines 137-138
JtEntry(t) ==
    /\ At(t, "cycle_to_specific", "entry")
    /\ LET f == call.frames[t]
       IN  ThreadStep(t, wc, [f EXCEPT !.pc =
               IF wc.windows = <<>> \/ f.index < 0 \/ f.index >= Len(wc.windows)
               THEN "done" ELSE "fetch"])

\* line 140: window = self.windows[window_index]
JtFetch(t) ==
    /\ At(t, "cycle_to_specific", "fetch")
    /\ LET f == call.frames[t]
       IN  IF f.index >= Len(wc.windows)
           THEN ThreadStep(t, wc, Raised(f, "IndexError"))
           ELSE ThreadStep(t, wc, [f EXCEPT !.window = wc.windows[f.index + 1],
                                            !.pc = "valid"])

\* lines 142-144
JtValid(t, valid) ==
    /\ At(t, "cycle_to_specific", "valid")
    /\ LET f == call.frames[t]
       IN  IF valid
           THEN ThreadStep(t, wc, [f EXCEPT !.pc = "activate"])
           ELSE ThreadStep(t, remove_invalid_window(Run(wc, World, "cycle_to_specific"),
                                                    f.index).wc,
                           [f EXCEPT !.pc = "done"])

\* lines 146-153
JtActivate(t, answer) ==
    /\ At(t, "cycle_to_specific", "activate")
    /\ LET f == call.frames[t]
           success == activate_window(Run(wc, World, "cycle_to_specific"), f.window, answer)
       IN  ThreadStep(t, IF success THEN [wc EXCEPT !.current_index = f.index] ELSE wc,
                      [f EXCEPT !.pc = "done", !.activations = @ + 1])

\* refresh_window_validity, lines 188-191: the loop variable set up
RfEntry(t) ==
    /\ At(t, "refresh_window_validity", "entry")
    /\ ThreadStep(t, wc, [call.frames[t] EXCEPT !.index = Len(wc.windows) - 1,
                                                !.pc = "loop"])

\* line 191: the next i of the range
RfLoop(t) ==
    /\ At(t, "refresh_window_validity", "loop")
    /\ LET f == call.frames[t]
       IN  ThreadStep(t, wc, [f EXCEPT !.pc = IF f.index < 0 THEN "done" ELSE "fetch"])

\* line 192: self.windows[i]
RfFetch(t) ==
    /\ At(t, "refresh_window_validity", "fetch")
    /\ LET f == call.frames[t]
       IN  IF f.index >= Len(wc.windows)
           THEN ThreadStep(t, wc, Raised(f, "IndexError"))
           ELSE ThreadStep(t, wc, [f EXCEPT !.window = wc.windows[f.index + 1],
                                            !.pc = "valid"])

\* lines 192-193: is_valid_handle and the removal
RfValid(t, valid) ==
    /\ At(t, "refresh_window_validity", "valid")
    /\ LET f == call.frames[t]
       IN  ThreadStep(t, IF valid THEN wc
                         ELSE remove_invalid_window(
                                  Run(wc, World, "refresh_window_validity"), f.index).wc,
                      [f EXCEPT !.index = @ - 1, !.pc = "loop"])

\* The lists the threads work on: one window, and two.
ThreadsLists ==
    { <<GameWindow("A", 1)>>, <<GameWindow("A", 1), GameWindow("B", 2)>> }

\* The list is set once, before any thread calls.
ThreadsSetWindows(windows) ==
    /\ call = NoCall
    /\ RoundSetWindows(windows)

ThreadsNext ==
    \/ \E windows \in ThreadsLists : ThreadsSetWindows(windows)
    \/ \E t \in CyclerThreads, index \in WindowIndexes :
           \E op \in OpsOf(t) : ThreadCall(t, op, index)
    \/ \E t \in CyclerThreads : CnEntry(t)
    \/ \E t \in CyclerThreads : CnCountLoad(t)
    \/ \E t \in CyclerThreads : CnCountStore(t)
    \/ \E t \in CyclerThreads : CnLoop(t)
    \/ \E t \in CyclerThreads : CnFetch(t)
    \/ \E t \in CyclerThreads, valid \in BOOLEAN : CnValid(t, valid)
    \/ \E t \in CyclerThreads : CnRemove(t)
    \/ \E t \in CyclerThreads, answer \in BOOLEAN : CnActivate(t, answer)
    \/ \E t \in CyclerThreads : CnAdvance(t)
    \/ \E t \in CyclerThreads : JtEntry(t)
    \/ \E t \in CyclerThreads : JtFetch(t)
    \/ \E t \in CyclerThreads, valid \in BOOLEAN : JtValid(t, valid)
    \/ \E t \in CyclerThreads, answer \in BOOLEAN : JtActivate(t, answer)
    \/ \E t \in CyclerThreads : RfEntry(t)
    \/ \E t \in CyclerThreads : RfLoop(t)
    \/ \E t \in CyclerThreads : RfFetch(t)
    \/ \E t \in CyclerThreads, valid \in BOOLEAN : RfValid(t, valid)

ThreadsSpec == RoundRobinInit /\ [][ThreadsNext]_vars

(***************************************************************************)
(* HotkeyConfig.parse and HotkeyValidator.validate_hotkey.  A hotkey       *)
(* string is a sequence of atoms: words in lower or mixed case, the        *)
(* separator "+" and the blank.                                            *)
(***************************************************************************)
Atoms == {"ctrl", "Alt", "f1", "mouse5", "+", " "}

MaxAtoms == 5

Texts == UNION {[1 .. n -> Atoms] : n \in 0 .. MaxAtoms}

\* str.lower
lower(text) == [i \in DOMAIN text |-> Lower(text[i])]

\* str.upper, on the words in use.
Upper(word) ==
    CASE word \in {"ctrl", "Ctrl"}       -> "CTRL"
      [] word \in {"alt", "Alt"}         -> "ALT"
      [] word \in {"f1", "F1"}           -> "F1"
      [] word \in {"mouse5", "Mouse5"}   -> "MOUSE5"
      [] OTHER                           -> word

upper(text) == [i \in DOMAIN text |-> Upper(text[i])]

RECURSIVE lstrip(_)
lstrip(text) ==
    IF text # <<>> /\ Head(text) = " " THEN lstrip(Tail(text)) ELSE text

RECURSIVE rstrip(_)
rstrip(text) ==
    IF text # <<>> /\ text[Len(text)] = " "
    THEN rstrip(SubSeq(text, 1, Len(text) - 1)) ELSE text

\* str.strip
strip(text) == rstrip(lstrip(text))

\* str.split('+'): the parts between the separators, empty parts included.
RECURSIVE split(_)
split(text) ==
    IF \A i \in DOMAIN text : text[i] # "+" THEN <<text>>
    ELSE LET i == CHOOSE k \in DOMAIN text :
                      text[k] = "+" /\ \A l \in 1 .. k - 1 : text[l] # "+"
         IN  <<SubSeq(text, 1, i - 1)>> \o split(SubSeq(text, i + 1, Len(text)))

\* "+".join
RECURSIVE join(_)
join(parts) ==
    IF parts = <<>> THEN <<>>
    ELSE IF Len(parts) = 1 THEN parts[1]
    ELSE parts[1] \o <<"+">> \o join(Tail(parts))

\* HotkeyConfig._generate_display_name
generate_display_name(modifiers, main_key) ==
    LET modifier_parts ==
            [i \in DOMAIN modifiers |->
                CASE modifiers[i] = "ctrl"  -> <<"Ctrl">>
                  [] modifiers[i] = "alt"   -> <<"Alt">>
                  [] modifiers[i] = "shift" -> <<"Shift">>
                  [] modifiers[i] = "win"   -> <<"Win">>]
        key_part ==
            CASE main_key = <<"middle">> -> <<"Middle Click">>
              [] main_key = <<"mouse4">> -> <<"Mouse 4">>
              [] main_key = <<"mouse5">> -> <<"Mouse 5">>
              [] main_key = <<"space">>  -> <<"Space">>
              [] main_key = <<"tab">>    -> <<"Tab">>
              [] OTHER                   -> upper(main_key)
    IN  join(Append(modifier_parts, key_part))

\* parse, were raw_value to list the modifiers in the order of ModifierKey's
\* members.
ParseRawInEnumOrder(hotkey_string) ==
    LET raw_value == strip(lower(hotkey_string))
        parts == split(raw_value)
        main_key == parts[Len(parts)]
        modifier_strings == SubSeq(parts, 1, Len(parts) - 1)
    IN  IF \E i \in DOMAIN modifier_strings :
               modifier_strings[i] \notin {<<m>> : m \in ModifierKey}
        THEN [outcome |-> "raise", config |-> NoParsed]
        ELSE LET modifiers == [i \in DOMAIN modifier_strings |-> modifier_strings[i][1]]
                 ordered == SelectSeq(<<"ctrl", "alt", "shift", "win">>,
                                      LAMBDA m : m \in Range(modifiers))
             IN  [ outcome |-> "return",
                   config |->
                     [ raw_value |-> join([i \in DOMAIN ordered |-> <<ordered[i]>>]
                                            \o <<main_key>>),
                       display_name |-> generate_display_name(modifiers, main_key),
                       modifiers |-> modifiers,
                       main_key |-> main_key,
                       hotkey_type |->
                           IF main_key \in {<<k>> : k \in MouseKeys}
                           THEN (IF modifiers = <<>> THEN "mouse" ELSE "combination")
                           ELSE (IF modifiers = <<>> THEN "keyboard" ELSE "combination") ] ]

\* HotkeyConfig.parse
parse(hotkey_string) ==
    LET raw_value == strip(lower(hotkey_string))
        parts == split(raw_value)
        main_key == parts[Len(parts)]
        modifier_strings == SubSeq(parts, 1, Len(parts) - 1)
    IN  IF \E i \in DOMAIN modifier_strings :
               modifier_strings[i] \notin {<<m>> : m \in ModifierKey}
        THEN [outcome |-> "raise", config |-> NoParsed]
        ELSE LET modifiers == [i \in DOMAIN modifier_strings |-> modifier_strings[i][1]]
             IN  [ outcome |-> "return",
                   config |->
                     [ raw_value |-> raw_value,
                       display_name |-> generate_display_name(modifiers, main_key),
                       modifiers |-> modifiers,
                       main_key |-> main_key,
                       hotkey_type |->
                           IF main_key \in {<<k>> : k \in MouseKeys}
                           THEN (IF modifiers = <<>> THEN "mouse" ELSE "combination")
                           ELSE (IF modifiers = <<>> THEN "keyboard" ELSE "combination") ] ]

\* HotkeyValidator.validate_hotkey
validate_hotkey(hotkey_string) ==
    IF hotkey_string = <<>> \/ strip(hotkey_string) = <<>> THEN FALSE
    ELSE LET parts == split(strip(lower(hotkey_string)))
             main_key == parts[Len(parts)]
             modifiers == SubSeq(parts, 1, Len(parts) - 1)
         IN  IF main_key \notin {<<k>> : k \in VALID_KEYS} THEN FALSE
             ELSE IF \E i \in DOMAIN modifiers :
                         modifiers[i] \notin {<<m>> : m \in ModifierKey} THEN FALSE
             ELSE IF Len(modifiers) # Cardinality(Range(modifiers)) THEN FALSE
             ELSE TRUE

\* A hotkey string reaches the application.
HotkeyString(hotkey_string) ==
    /\ call = NoCall
    /\ call' = [NoCall EXCEPT !.op = "hotkey_string", !.text = hotkey_string]
    /\ wc' = wc
    /\ ret' = NoRet
    /\ UNCHANGED <<hk, os, hist, EngineRest>>

\* The string is validated and parsed.
Parse ==
    /\ call.op = "hotkey_string"
    /\ call' = [call EXCEPT !.op = "parse",
                            !.result = validate_hotkey(call.text),
                            !.parsed = parse(call.text)]
    /\ wc' = wc
    /\ ret' = NoRet
    /\ UNCHANGED <<hk, os, hist, EngineRest>>

\* The raw_value of the config is parsed.
ParseAgain ==
    /\ call.op = "parse"
    /\ call.parsed.outcome = "return"
    /\ call' = [call EXCEPT !.op = "parse_again",
                            !.again = parse(call.parsed.config.raw_value)]
    /\ wc' = wc
    /\ ret' = NoRet
    /\ UNCHANGED <<hk, os, hist, EngineRest>>

ParseNext ==
    \/ /\ call = NoCall
       /\ \E hotkey_string \in Texts : HotkeyString(hotkey_string)
    \/ Parse
    \/ ParseAgain

ParseSpec == RoundRobinInit /\ [][ParseNext]_vars

(***************************************************************************)
(* ReorderSpec: the application sets the window list once, on a machine    *)
(* with the Windows API, and then reorders it, jumps to windows by index   *)
(* and refreshes the list's validity, in any order.                        *)
(***************************************************************************)
\* The lists of indexes reorder_windows is handed.
NewOrders == UNION {[1 .. n -> WindowIndexes] : n \in 0 .. MaxWindows}

ReorderNext ==
    \/ \E windows \in WindowLists : RoundSetWindows(windows)
    \/ \E new_order \in NewOrders : ReorderWindows(new_order)
    \/ \E window_index \in WindowIndexes :
           \E valid \in SUBSET HandlesOf(wc.windows) :
               \E answer \in BOOLEAN : CycleToSpecific(window_index, valid, answer)
    \/ \E valid \in SUBSET HandlesOf(wc.windows) : RefreshWindowValidity(valid)

ReorderSpec == RoundRobinInit /\ [][ReorderNext]_vars

(***************************************************************************)
(* SequentialSpec: one thread calls set_windows, cycle_next,               *)
(* cycle_to_specific, refresh_window_validity and reorder_windows one      *)
(* after the other, in any order, on a machine with the Windows API.  The  *)
(* windows handed to set_windows are alive; afterwards they die, are       *)
(* hidden and shown again, and activations fail, as the OS has it.  No     *)
(* hotkey is bound: cycle_next is called directly.                         *)
(***************************************************************************)
\* The index lists of the list's own length, with indexes in and out of
\* range.
OrdersOf(windows) == [1 .. Len(windows) -> 0 .. Len(windows)]

\* What is_valid_handle can answer a cycle_to_specific call: it asks about
\* the window at the index only.
ValidFor(windows, window_index) ==
    {HandlesOf(windows)} \cup
    {HandlesOf(windows) \ {windows[i].hwnd} : i \in {window_index + 1} \cap DOMAIN windows}

SequentialCycleNext(valid, activates) ==
    /\ wc.total_cycles < MaxDirectCycles
    /\ CycleNext(valid, activates)

SequentialNext ==
    \/ \E windows \in WindowLists : SetWindows(windows, HandlesOf(windows))
    \/ \E valid \in SUBSET HandlesOf(wc.windows) :
           \E activates \in Activations(Len(wc.windows)) :
               SequentialCycleNext(valid, activates)
    \/ \E window_index \in (0 - 1) .. Len(wc.windows) :
           \E valid \in ValidFor(wc.windows, window_index) :
               \E answer \in BOOLEAN : CycleToSpecific(window_index, valid, answer)
    \/ \E valid \in SUBSET HandlesOf(wc.windows) : RefreshWindowValidity(valid)
    \/ \E new_order \in OrdersOf(wc.windows) : ReorderWindows(new_order)

SequentialSpec == RoundRobinInit /\ [][SequentialNext]_vars

(***************************************************************************)
(* PruneSpec: the application sets the window list once and binds the      *)
(* hotkey, on a machine with the Windows API; then windows die, and        *)
(* cycle_next, cycle_to_specific and refresh_window_validity find them     *)
(* dead, in any order.                                                     *)
(***************************************************************************)
PruneNext ==
    \/ \E windows \in WindowLists : RoundSetWindows(windows)
    \/ FirstSetHotkey(CyclerCombo)
    \/ \E valid \in SUBSET HandlesOf(wc.windows) :
           \E activates \in Activations(Len(wc.windows)) :
               SequentialCycleNext(valid, activates)
    \/ \E window_index \in (0 - 1) .. Len(wc.windows) :
           \E valid \in ValidFor(wc.windows, window_index) :
               \E answer \in BOOLEAN : CycleToSpecific(window_index, valid, answer)
    \/ \E valid \in SUBSET HandlesOf(wc.windows) : RefreshWindowValidity(valid)

PruneSpec == RoundRobinInit /\ [][PruneNext]_vars

(***************************************************************************)
(* WindowsAPI.activate_window.  A win32 call succeeds ("ok"), is refused by *)
(* the OS without an exception ("refused") or raises ("raise").            *)
(***************************************************************************)
ActivationEnvs ==
    [ foreground : Handles,
      placement  : {"normal", "minimized", "raise"},
      restore    : {"ok", "raise"},
      basic      : {"ok", "refused", "raise"},
      attach_input : {"ok", "raise"},
      attach     : {"same_thread", "ok", "refused", "raise"},
      taken_by   : Handles \cup {""},
      check      : {"ok", "raise"} ]

\* activate_window, were an exception of the basic activation to leave the
\* function through the outer handler.
WindowsApiActivateWindowGivingUp(hwnd, env) ==
    LET method1 == [foreground |-> env.foreground, steps |-> <<"restore">>]
        method2 == [method1 EXCEPT !.steps = Append(@, "basic"),
                                   !.foreground = IF env.basic = "ok" THEN hwnd ELSE @]
        method3 == [method2 EXCEPT !.steps = Append(@, "attach"),
                                   !.foreground =
                                       IF env.attach = "ok" /\ env.attach_input = "ok"
                                       THEN hwnd ELSE @]
        \* AttachThreadInput(..., False) comes after both requests, in their try
        attached == /\ env.attach # "same_thread"
                    /\ env.attach_input = "ok"
                    /\ env.attach = "raise"
        verify  == [method3 EXCEPT !.steps = Append(@, "verify"),
                                   !.foreground = IF env.taken_by # "" THEN env.taken_by ELSE @]
    IN  IF env.basic = "raise"
        THEN [outcome |-> "return", result |-> FALSE, attached |-> FALSE,
              steps |-> method2.steps, foreground |-> ""]
        ELSE IF env.check = "raise"
        THEN [outcome |-> "return", result |-> TRUE, attached |-> attached,
              steps |-> verify.steps, foreground |-> ""]
        ELSE [outcome |-> "return", result |-> (verify.foreground = hwnd),
              attached |-> attached,
              steps |-> verify.steps, foreground |-> verify.foreground]

\* WindowsAPI.activate_window: the three methods, each in a try of its own
\* whose handler passes, and the verification.
WindowsApiActivateWindow(hwnd, env) ==
    LET method1 == [foreground |-> env.foreground, steps |-> <<"restore">>]
        method2 == [method1 EXCEPT !.steps = Append(@, "basic"),
                                   !.foreground = IF env.basic = "ok" THEN hwnd ELSE @]
        method3 == [method2 EXCEPT !.steps = Append(@, "attach"),
                                   !.foreground =
                                       IF env.attach = "ok" /\ env.attach_input = "ok"
                                       THEN hwnd ELSE @]
        \* AttachThreadInput(..., False) comes after both requests, in their try
        attached == /\ env.attach # "same_thread"
                    /\ env.attach_input = "ok"
                    /\ env.attach = "raise"
        verify  == [method3 EXCEPT !.steps = Append(@, "verify"),
                                   !.foreground = IF env.taken_by # "" THEN env.taken_by ELSE @]
    IN  IF env.check = "raise"
        THEN [outcome |-> "return", result |-> TRUE, attached |-> attached,
              steps |-> verify.steps, foreground |-> ""]
        ELSE [outcome |-> "return", result |-> (verify.foreground = hwnd),
              attached |-> attached,
              steps |-> verify.steps, foreground |-> verify.foreground]

ActivateWindow(hwnd, env) ==
    /\ LET a == WindowsApiActivateWindow(hwnd, env)
       IN  call' = [NoCall EXCEPT !.op = "activate_window",
                                  !.outcome = a.outcome,
                                  !.result = a.result,
                                  !.hwnd = hwnd,
                                  !.env = env,
                                  !.steps = a.steps,
                                  !.attached = a.attached,
                                  !.foreground = a.foreground]
    /\ wc' = wc
    /\ ret' = NoRet
    /\ UNCHANGED <<hk, os, hist, EngineRest>>

\* One call, with every answer the OS can give.
ActivateNext ==
    /\ call = NoCall
    /\ \E hwnd \in Handles, env \in ActivationEnvs : ActivateWindow(hwnd, env)

ActivateSpec == RoundRobinInit /\ [][ActivateNext]_vars

(***************************************************************************)
(* StepsSpec: one cycle_next call taken statement by statement on the      *)
(* application's thread alone, over any list, with windows dying and       *)
(* activations failing as the OS has it.                                   *)
(***************************************************************************)
StepsNext ==
    \/ \E windows \in WindowLists : ThreadsSetWindows(windows)
    \/ ThreadCall("caller", "cycle_next", 0)
    \/ CnEntry("caller")
    \/ CnCountLoad("caller")
    \/ CnCountStore("caller")
    \/ CnLoop("caller")
    \/ CnFetch("caller")
    \/ \E valid \in BOOLEAN : CnValid("caller", valid)
    \/ CnRemove("caller")
    \/ \E answer \in BOOLEAN : CnActivate("caller", answer)
    \/ CnAdvance("caller")

StepsSpec == CyclerInit /\ [][StepsNext]_vars

(***************************************************************************)
(* What the claims speak of.                                               *)
(***************************************************************************)
\* A pump thread that dispatches the callback at the next WM_HOTKEY: it
\* holds its registration and is in GetMessage or past it, or is about to
\* find the stop flag clear.
CanDispatch(p) ==
    \/ pump[p].pc \in {"get_message", "should_trigger", "accepted"}
    \/ pump[p].pc = "loop" /\ ~hk.stop_thread

\* The capture instances that are armed: the keyboard library's hook, the
\* raw listeners, the pump thread the engine has just started, and every
\* pump thread that can dispatch.
ArmedInstances ==
    (IF os.kb_hook # NoConfig THEN {[method |-> "keyboard", id |-> 0]} ELSE {})
    \cup (IF os.key_running \/ os.mouse_running
          THEN {[method |-> "pynput", id |-> 0]} ELSE {})
    \cup {[method |-> "win32", id |-> p] :
             p \in {q \in PumpIds : CanDispatch(q) \/ (q = hk.hotkey_thread /\ Alive(q))}}

\* Whether a capture method arms for config, given what the libraries answer.
CanArm(method, config, env) ==
    CASE method = "keyboard" ->
             hk.keyboard_available /\ env.kb = "ok" /\ config.main_key \notin MouseKeys
      [] method = "win32" ->
             hk.windows_api /\ config.main_key \in VALID_KEYS \ MouseKeys
                            /\ get_vk_code(config.main_key) # 0
      [] method = "pynput" -> hk.pynput_available /\ env.pyn = "ok"

\* The combos of one modifier and a pointer-button main key.
PointerCombos == {[modifiers |-> <<"ctrl">>, main_key |-> k] : k \in MouseKeys}

(***************************************************************************)
(* The claims.                                                             *)
(***************************************************************************)
\* C1: when set_hotkey returns, either it returned true and exactly one
\* capture method is armed, the one recorded as active, or it returned false
\* and nothing is armed: no library hook, no pump thread or OS registration,
\* no raw listener.
C1_ConfigureArmsOneOrNone ==
    ret.op = "set_hotkey" =>
        IF ret.result
        THEN \E a \in ArmedInstances :
                 /\ ArmedInstances = {a}
                 /\ a.method = hk.active_method
                 /\ a.method = "win32" => a.id = hk.hotkey_thread
        ELSE ArmedInstances = {}

\* C2: set_hotkey tries the methods in the order keyboard, win32, pynput; a
\* method that is unavailable, fails or raises is skipped; it returns true at
\* the first method that arms, tries none after it, and returns false when
\* none arms; the result is always a boolean.
C2_MethodsTriedInPriorityOrder ==
    ret.op = "set_hotkey" =>
        LET n == Len(ret.tried)
        IN  /\ n \in 1 .. Len(method_priority)
            /\ \A i \in 1 .. n :
                 /\ ret.tried[i].method = method_priority[i]
                 /\ ret.tried[i].outcome = "armed"
                        <=> CanArm(method_priority[i], hk.current_config, ret.env)
                 /\ i < n => ret.tried[i].outcome # "armed"
            /\ ret.result \in BOOLEAN
            /\ ret.result <=> ret.tried[n].outcome = "armed"
            /\ ret.result => hk.is_listening /\ hk.active_method = ret.tried[n].method
            /\ ~ret.result => /\ n = Len(method_priority)
                              /\ ~hk.is_listening
                              /\ hk.active_method = "None"

\* C2's case: the keyboard library raises, win32 is unavailable, and the raw
\* listener arms.
C2_Witness ==
    /\ ret.op = "set_hotkey"
    /\ ret.result
    /\ hk.keyboard_available /\ ret.env.kb = "raise" /\ ~hk.windows_api
    /\ ret.tried = << [method |-> "keyboard", outcome |-> "failed"],
                      [method |-> "win32", outcome |-> "unavailable"],
                      [method |-> "pynput", outcome |-> "armed"] >>

\* C3: at every moment at most one capture instance is armed; no pump thread
\* of an earlier configuration lives on beside the newly armed method.
C3_AtMostOneArmed == Cardinality(ArmedInstances) <= 1

\* C4: of two candidate triggers that arrive less than 200 ms apart only one
\* is accepted: any two accepted triggers are at least 200 ms apart.
C4_DebounceOneCallback ==
    \A i, j \in DOMAIN hist.accepted :
        i < j => hist.accepted[j] - hist.accepted[i] >= min_trigger_interval

\* C5: a raw-listener handler dispatches only if its event took the combo
\* from not active to active; the handler of an event that leaves the combo
\* pressed, or of a repeat of a pressed key, dispatches nothing.
C5_RawListenerEdgeOnly ==
    [][\A t \in {"key", "mouse"} :
           (lt[t].pc = "accepted" /\ lt'[t].pc # "accepted") => lt[t].edge]_vars

\* C6: while the combo stays held, whichever method is armed, at most one
\* callback is dispatched, the repeat events the OS delivers notwithstanding.
C6_HoldYieldsOneCallback ==
    PhysAsserted(hk.current_config, down) => hist.hold_dispatches <= 1

\* C7: after set_hotkey returned true, a transition of the combo to fully
\* asserted, 200 ms or more after the last accepted trigger, is followed by a
\* callback: the engine never comes to rest, the combo still held, with that
\* callback owed.
C7_AssertedComboFires ==
    ~(hist.owed /\ Quiescent /\ PhysAsserted(hk.current_config, down))

\* C8: _start_win32_method, given a combo whose main key is a pointer
\* button, returns false and changes nothing: no thread, no registration;
\* set_hotkey logs the failure and goes on to the raw listener.
C8_Win32RefusesPointerButtons ==
    /\ \A config \in PointerCombos :
           LET w == [World EXCEPT !.hk.current_config = config]
               r == start_win32_method(w)
           IN  ~r.success /\ r.w = w
    /\ (ret.op = "set_hotkey" /\ hk.current_config.main_key \in MouseKeys) =>
           /\ hk.hotkey_thread = 0
           /\ ret.tried[2].outcome = IF hk.windows_api THEN "failed" ELSE "unavailable"
           /\ ret.result <=> ret.tried[3].outcome = "armed"
           /\ ret.result => hk.active_method = "pynput"

\* C8's case: win32 is available, the combo is ctrl+mouse5, win32 fails with
\* no pump thread started, and the raw listener arms.
C8_Witness ==
    /\ ret.op = "set_hotkey"
    /\ hk.current_config.main_key = "mouse5"
    /\ hk.windows_api
    /\ ret.tried[2] = [method |-> "win32", outcome |-> "failed"]
    /\ ret.tried[3] = [method |-> "pynput", outcome |-> "armed"]
    /\ \A p \in PumpIds : ~Alive(p)
    /\ hk.active_method = "pynput"

\* C9: every accepted trigger spawns a new callback thread, and the capture
\* thread goes straight on to the rest of its handler or loop, whatever the
\* callbacks spawned before are doing.
C9_CallbackOnNewThread ==
    [][/\ \A t \in LibThreads :
            (lt[t].pc = "accepted" /\ lt'[t].pc # "accepted") =>
                /\ callback_threads' = callback_threads + 1
                /\ lt'[t].pc = IF t = "kb" THEN "idle" ELSE "set_last"
       /\ \A p \in PumpIds :
            (pump[p].pc = "accepted" /\ pump'[p].pc # "accepted") =>
                /\ callback_threads' = callback_threads + 1
                /\ pump'[p].pc = "loop"]_vars

\* C9's case: a second trigger is dispatched while the first callback thread
\* has not returned, and the capture thread is back in its loop.
C9_Witness ==
    /\ callback_threads >= 2
    /\ Len(hist.accepted) >= 2
    /\ Quiescent

\* C10: stop_listening is idempotent: when it has returned, a further call
\* changes nothing, the listening flag is false, the active method is none
\* and no capture instance is armed.
C10_StopIdempotent ==
    ret.op = "stop_listening" =>
        /\ stop_listening(World) = World
        /\ ~hk.is_listening
        /\ hk.active_method = "None"
        /\ ArmedInstances = {}

\* C11: after stop_listening is called while the win32 method is armed, the
\* pump thread eventually leaves its message loop and unregisters the
\* hotkey, also when no further message arrives and when set_hotkey is
\* called again right after.
C11_PumpLeavesAfterStop ==
    \A p \in PumpIds :
        (ret.op = "stop_listening" /\ Alive(p)) ~> ~Alive(p)

\* C12: once stop_listening has returned, asserting the combo dispatches no
\* callback until set_hotkey is called again, whichever method was armed.
C12_NoDispatchAfterStop ==
    [][(hk.callback /\ ~hk.is_listening) => callback_threads' = callback_threads]_vars

\* The windows of a list that have the given order, in the list's order.
OfOrder(windows, order) == SelectSeq(windows, LAMBDA w : w.order = order)

\* The orders the windows can have.
Orders == {w.order : w \in GameWindows}

\* C13: set_windows with an empty list, or with a list none of whose windows
\* is valid, returns false and leaves the list, the cursor and the counters
\* as they were.
C13_SetWindowsRejects ==
    [][(call'.op = "set_windows" /\ call'.supplied = <<>>) =>
         (call'.result = FALSE /\ wc' = wc)]_vars

\* A rejected set_windows call on a cycler that has a list, a cursor off the
\* start and counted triggers.
C13_Witness ==
    /\ call.op = "set_windows"
    /\ ~call.result
    /\ wc.windows # <<>>
    /\ wc.current_index > 0
    /\ wc.total_cycles > 0

\* C14: set_windows with at least one valid window returns true and replaces
\* the list by exactly the valid supplied windows in ascending order, windows
\* of equal order in the order they were supplied, and sets the cursor to 0.
C14_SetWindowsSortsValid ==
    [][(call'.op = "set_windows" /\ call'.supplied # <<>>) =>
         /\ call'.result = TRUE
         /\ Len(wc'.windows) = Len(call'.supplied)
         /\ \A i, j \in DOMAIN wc'.windows :
                i < j => wc'.windows[i].order <= wc'.windows[j].order
         /\ \A o \in Orders : OfOrder(wc'.windows, o) = OfOrder(call'.supplied, o)
         /\ wc'.current_index = 0]_vars

\* An accepted set_windows call that was handed C, A and B, with C and B of
\* one order, on a cycler that has counted triggers.
C14_Witness ==
    /\ call.op = "set_windows"
    /\ call.result
    /\ call.supplied = <<GameWindow("C", 2), GameWindow("A", 1), GameWindow("B", 2)>>
    /\ wc.windows = <<GameWindow("A", 1), GameWindow("C", 2), GameWindow("B", 2)>>
    /\ wc.total_cycles > 0

\* C15: every cycle_next call raises total_cycles by exactly one, on each of
\* its paths: a window activated, every attempt failed, the list emptied by
\* pruning, the list empty on entry.
C15_EveryTriggerCounted ==
    [][call'.op = "cycle_next" => wc'.total_cycles = wc.total_cycles + 1]_vars

\* C16: cycle_next called while the list is empty ends with an error the
\* caller can tell from a normal return.
C16_EmptyListIsAnError ==
    [][(call'.op = "cycle_next" /\ wc.windows = <<>>) => call'.outcome = "raise"]_vars

\* C17: in cycle_next an invalid window found at the cursor is removed from
\* the list and on_window_removed is fired for it, the cursor stays in range,
\* and the loop goes on without the removal using up an attempt; when a
\* removal empties the list the hotkey engine is stopped, on_cycling_stopped
\* is fired exactly once and the call returns without trying an activation.
C17_InvalidWindowPruned ==
    [][call'.op = "cycle_next" =>
         LET n == Len(wc.windows)
             cursor == IF wc.current_index >= n THEN 0 ELSE wc.current_index
         IN  /\ \A i \in DOMAIN call'.removed : call'.removed[i].hwnd \notin call'.valid
             /\ wc'.windows =
                    SelectSeq(wc.windows, LAMBDA w : w \notin Range(call'.removed))
             /\ Len(call'.removed) = n - Len(wc'.windows)
             /\ (n > 0 /\ wc.windows[cursor + 1].hwnd \notin call'.valid) =>
                    /\ call'.removed # <<>>
                    /\ call'.removed[1] = wc.windows[cursor + 1]
             /\ wc'.windows # <<>> =>
                    wc'.current_index \in 0 .. Len(wc'.windows) - 1
             /\ (call'.activated = <<>> /\ wc'.windows # <<>>) =>
                    Len(call'.attempted) = n
             /\ IF n > 0 /\ wc'.windows = <<>>
                THEN /\ ~hk'.is_listening
                     /\ call'.stopped = 1
                     /\ call'.attempted = <<>>
                ELSE call'.stopped = 0]_vars

\* A cycle_next call, the hotkey bound, that removed one window, went on to
\* the next, removed it too and so emptied the list.
C17_Witness ==
    /\ call.op = "cycle_next"
    /\ Len(call.removed) = 2
    /\ wc.windows = <<>>
    /\ call.stopped = 1
    /\ hk.callback
    /\ hk.windows_api

\* C18: cycle_next on a list of N windows, all valid, with every activation
\* failing, raises total_cycles by one and failed_activations by N, leaves
\* successful_activations as it was, fires no on_window_activated and
\* returns normally.
C18_AllActivationsFail ==
    [][(call'.op = "cycle_next" /\ wc.windows # <<>>) =>
         \A activates \in Activations(Len(wc.windows)) :
             (/\ call'.valid = HandlesOf(wc.windows)
              /\ ~hk.windows_api \/ \A i \in DOMAIN activates : ~activates[i]
              /\ CycleNext(HandlesOf(wc.windows), activates)) =>
                 /\ wc'.total_cycles = wc.total_cycles + 1
                 /\ wc'.failed_activations = wc.failed_activations + Len(wc.windows)
                 /\ wc'.successful_activations = wc.successful_activations
                 /\ call'.activated = <<>>
                 /\ call'.outcome = "return"]_vars

\* A cycle_next call that tried three windows, removed none and activated
\* none.
C18_Witness ==
    /\ call.op = "cycle_next"
    /\ Len(call.attempted) = 3
    /\ call.removed = <<>>
    /\ call.activated = <<>>
    /\ wc.failed_activations >= 3

\* The lists of C19: A, B, C in this order, and A, B.
PruneLists ==
    { <<GameWindow("A", 1), GameWindow("B", 2), GameWindow("C", 3)>>,
      <<GameWindow("A", 1), GameWindow("B", 2)>> }

\* C19: one cycle_next call with the cursor at 0 on [A, B, C], or on [A, B],
\* where B alone is invalid, both activates A and removes B, so that the
\* list is one window shorter after that single call.
C19_OneTriggerActivatesAndPrunes ==
    [][(/\ call'.op = "cycle_next"
        /\ wc.windows \in PruneLists
        /\ wc.current_index = 0
        /\ hk.windows_api) =>
         \A activates \in Activations(Len(wc.windows)) :
             (/\ call'.valid = HandlesOf(wc.windows) \ {"B"}
              /\ activates[1]
              /\ CycleNext(HandlesOf(wc.windows) \ {"B"}, activates)) =>
                 /\ call'.activated = <<GameWindow("A", 1)>>
                 /\ call'.removed = <<GameWindow("B", 2)>>
                 /\ Len(wc'.windows) = Len(wc.windows) - 1]_vars

\* C20: over a list of n windows that all stay valid, with every activation
\* succeeding and the cursor at 0 after set_windows, the k-th cycle_next
\* activates the window at position (k - 1) mod n and the list stays as it
\* is: over [A, B, C], four triggers activate A, B, C, A.
C20_RoundRobin ==
    [][(call'.op = "cycle_next" /\ wc.windows # <<>>) =>
         LET n == Len(wc.windows)
             k == wc'.total_cycles
         IN  /\ k = wc.total_cycles + 1
             /\ call'.activated = <<wc.windows[((k - 1) % n) + 1]>>
             /\ wc'.windows = wc.windows]_vars

\* The fourth trigger over [A, B, C] has activated A.
C20_Witness ==
    /\ call.op = "cycle_next"
    /\ wc.windows = <<GameWindow("A", 1), GameWindow("B", 2), GameWindow("C", 3)>>
    /\ wc.total_cycles = 4
    /\ wc.successful_activations = 4
    /\ call.activated = <<GameWindow("A", 1)>>

\* The lists of C21: [A, B] as set, and [A] once B is pruned.
ListAB == <<GameWindow("A", 1), GameWindow("B", 2)>>

ListA == <<GameWindow("A", 1)>>

\* C21: over the list [A, B] with B closed for good and every activation of
\* A succeeding, every trigger activates A and none tries B; B is removed,
\* with one on_window_removed, once and no later than by the second trigger,
\* after which the list is [A]; cycling is never stopped.
C21_ClosedWindowPrunedOnce ==
    [][(call'.op = "cycle_next" /\ wc.windows \in {ListAB, ListA}) =>
         /\ call'.activated = <<GameWindow("A", 1)>>
         /\ call'.attempted = <<GameWindow("A", 1)>>
         /\ call'.stopped = 0
         /\ hk'.is_listening = hk.is_listening
         /\ wc'.windows \in {wc.windows, ListA}
         /\ call'.removed =
                IF wc'.windows = wc.windows THEN <<>> ELSE <<GameWindow("B", 2)>>
         /\ wc'.total_cycles >= 2 => wc'.windows = ListA]_vars

\* The second trigger over [A, B]: it has removed B and activated A, and the
\* engine still listens.
C21_Witness ==
    /\ call.op = "cycle_next"
    /\ wc.total_cycles = 2
    /\ wc.successful_activations = 2
    /\ wc.windows = ListA
    /\ call.removed = <<GameWindow("B", 2)>>
    /\ call.activated = <<GameWindow("A", 1)>>
    /\ hk.is_listening

\* What a call of cycle_to_specific for window_index has done between a
\* state and its successor: nothing when the index is not of the list; the
\* window taken out and announced, and no activation attempted, when the
\* window is invalid; one attempt otherwise, whose answer is the result.
JumpedTo(window_index) ==
    IF wc.windows = <<>> \/ window_index < 0 \/ window_index >= Len(wc.windows)
    THEN /\ call'.result = FALSE
         /\ wc' = wc
         /\ call'.removed = <<>> /\ call'.attempted = <<>> /\ call'.activated = <<>>
    ELSE LET window == wc.windows[window_index + 1]
         IN  IF window.hwnd \notin call'.valid
             THEN /\ call'.result = FALSE
                  /\ call'.removed = <<window>>
                  /\ call'.attempted = <<>> /\ call'.activated = <<>>
                  /\ wc'.windows = SubSeq(wc.windows, 1, window_index)
                                     \o SubSeq(wc.windows, window_index + 2, Len(wc.windows))
             ELSE /\ call'.attempted = <<window>>
                  /\ call'.result = (hk.windows_api /\ call'.answer)
                  /\ call'.activated = IF call'.result THEN <<window>> ELSE <<>>
                  /\ call'.removed = <<>>
                  /\ wc'.windows = wc.windows

\* C22: cycle_to_specific(index) returns false and changes nothing when the
\* index is out of range or the list is empty; removes an invalid window,
\* announces it and returns false without attempting activation; attempts
\* the activation of a valid window exactly once and returns its result.
\* cycle_to_character(key) does the same for the first window whose name
\* matches key, and returns false and changes nothing when none matches.
C22_JumpTo ==
    [][/\ call'.op = "cycle_to_specific" => JumpedTo(call'.index)
       /\ call'.op = "cycle_to_character" =>
              LET found == {i \in DOMAIN wc.windows :
                               Lower(character_name(wc.windows[i])) = Lower(call'.key)}
              IN  IF found = {}
                  THEN /\ call'.result = FALSE
                       /\ wc' = wc
                       /\ call'.removed = <<>> /\ call'.attempted = <<>>
                  ELSE \E i \in found :
                          /\ \A k \in found : i <= k
                          /\ JumpedTo(i - 1)
       /\ call'.op \in {"cycle_to_specific", "cycle_to_character"} =>
              /\ call'.stopped = 0
              /\ hk' = hk
              /\ wc'.total_cycles = wc.total_cycles
              /\ wc'.successful_activations = wc.successful_activations
              /\ wc'.failed_activations = wc.failed_activations]_vars

\* A jump by name has passed the window A, whose name does not match, and
\* activated B, the first of the two windows that match.
C22_Witness ==
    /\ call.op = "cycle_to_character"
    /\ call.key = "iop"
    /\ call.result
    /\ wc.windows = <<GameWindow("A", 1), GameWindow("B", 2), GameWindow("C", 3)>>
    /\ call.activated = <<GameWindow("B", 2)>>
    /\ wc.current_index = 1

\* How often x occurs in seq.
Count(seq, x) == Cardinality({i \in DOMAIN seq : seq[i] = x})

\* C23: refresh_window_validity leaves exactly the windows of the list that
\* are valid, in their order, announces every removed window exactly once
\* and leaves the counters alone.
C23_RefreshKeepsValid ==
    [][call'.op = "refresh_window_validity" =>
         /\ wc'.windows = SelectSeq(wc.windows, LAMBDA window : window.hwnd \in call'.valid)
         /\ \A window \in Range(wc.windows) :
                Count(call'.removed, window) =
                    IF window.hwnd \in call'.valid THEN 0 ELSE Count(wc.windows, window)
         /\ Range(call'.removed) \subseteq Range(wc.windows)
         /\ call'.attempted = <<>>
         /\ wc'.total_cycles = wc.total_cycles
         /\ wc'.successful_activations = wc.successful_activations
         /\ wc'.failed_activations = wc.failed_activations]_vars

\* A refresh has taken two neighbouring windows out and kept the third.
C23_Witness ==
    /\ call.op = "refresh_window_validity"
    /\ call.removed = <<GameWindow("B", 2), GameWindow("A", 1)>>
    /\ wc.windows = <<GameWindow("C", 3)>>

\* C24: start_cycling returns true exactly when the list is not empty and
\* the hotkey engine is listening, and changes nothing; stop_cycling leaves
\* no capture instance of the hotkey engine armed and fires
\* on_cycling_stopped exactly once.
C24_StartAndStop ==
    [][/\ call'.op = "start_cycling" =>
              /\ call'.result = (wc.windows # <<>> /\ hk.is_listening)
              /\ wc' = wc /\ hk' = hk /\ os' = os /\ pump' = pump
       /\ call'.op = "stop_cycling" =>
              /\ call'.stopped = 1
              /\ ~hk'.is_listening
              /\ ArmedInstances' = {}]_vars

\* C25: calls of cycle_next, cycle_to_specific and refresh_window_validity
\* made from different threads exclude each other, so that no interleaving
\* of them indexes the list out of range, takes a modulus by a zero length
\* or loses a counter update: no call ends in an IndexError or a
\* ZeroDivisionError, and total_cycles is the number of calls that have
\* counted themselves.
C25_CallsExcludeEachOther ==
    /\ \A t \in DOMAIN call.frames : call.frames[t].error = "none"
    /\ call.op = "threads" =>
           wc.total_cycles = Cardinality({t \in DOMAIN call.frames : call.frames[t].counted})

\* C26: under pynput the pressed keys, the pressed buttons and
\* last_combo_state are read and written by one listener thread only: the
\* handler of a key event and the handler of a button event are never both
\* under way, each on its own thread, about to evaluate the combo or to
\* write last_combo_state.
C26_SingleListenerThread ==
    ~(lt["key"].pc # "idle" /\ lt["mouse"].pc # "idle")

\* C28: for every hotkey string that parse accepts, the strings the
\* validator accepts among them, parsing the raw_value of the parsed config
\* returns a config equal to it: the same modifiers, main key, type,
\* raw_value and display name.
C28_ParseRoundTrip ==
    call.op = "parse_again" =>
        /\ call.again.outcome = "return"
        /\ call.again.config.modifiers = call.parsed.config.modifiers
        /\ call.again.config.main_key = call.parsed.config.main_key
        /\ call.again.config.hotkey_type = call.parsed.config.hotkey_type
        /\ call.again.config.raw_value = call.parsed.config.raw_value
        /\ call.again.config.display_name = call.parsed.config.display_name

\* A valid string in mixed case with two modifiers has gone round: its
\* raw_value differs from it and parses to the same config.
C28_Witness ==
    /\ call.op = "parse_again"
    /\ call.result
    /\ call.text = <<"ctrl", "+", "Alt", "+", "f1">>
    /\ call.parsed.config.raw_value = <<"ctrl", "+", "alt", "+", "f1">>
    /\ call.parsed.config.modifiers = <<"ctrl", "alt">>
    /\ call.again.config.display_name = <<"Ctrl", "+", "Alt", "+", "F1">>

\* The hotkey strings that differ from text only in the order of two
\* neighbouring modifiers or in the repetition of one modifier.
ModifierVariants(text) ==
    LET parts == split(strip(text))
        n == Len(parts) - 1
    IN  {join([i \in DOMAIN parts |->
                  IF i = k THEN parts[k + 1]
                  ELSE IF i = k + 1 THEN parts[k] ELSE parts[i]]) : k \in 1 .. n - 1}
        \cup {join(SubSeq(parts, 1, k) \o SubSeq(parts, k, Len(parts))) : k \in 1 .. n}

\* C29: the modifiers of a combo are a set without order or repetition: no
\* config that parse returns holds a modifier twice, and a string that
\* differs from a valid one only in the order or the repetition of its
\* modifiers is valid too and parses to an equal config, raw_value included.
C29_ModifiersAreASet ==
    /\ (call.op = "parse" /\ call.parsed.outcome = "return") =>
           Cardinality(Range(call.parsed.config.modifiers)) = Len(call.parsed.config.modifiers)
    /\ (call.op = "parse" /\ call.result) =>
           \A text \in ModifierVariants(call.text) :
               /\ validate_hotkey(text)
               /\ parse(text) = call.parsed

\* C27: after any sequence of set_windows, cycle_next, cycle_to_specific,
\* refresh_window_validity and reorder_windows the list is sorted ascending
\* by order and holds no handle more than once.
C27_SortedWithoutDuplicates ==
    /\ \A i, j \in DOMAIN wc.windows :
           i < j => wc.windows[i].order <= wc.windows[j].order
    /\ \A i, j \in DOMAIN wc.windows :
           wc.windows[i].hwnd = wc.windows[j].hwnd => i = j

\* C30: WindowsAPI.activate_window returns true exactly when the window
\* GetForegroundWindow gives in its verification is the handle, and true
\* when GetForegroundWindow raises; it never raises, and whichever of the
\* restore, the basic activation and the activation with attached input
\* fail, the later methods and the verification are still gone into.
C30_ActivateReportsForeground ==
    call.op = "activate_window" =>
        /\ call.outcome = "return"
        /\ call.steps = <<"restore", "basic", "attach", "verify">>
        /\ call.result = (IF call.env.check = "raise" THEN TRUE
                          ELSE call.foreground = call.hwnd)

\* Every method has raised and the verification has still found the window,
\* which was in the foreground before, in the foreground.
C30_Witness ==
    /\ call.op = "activate_window"
    /\ call.env.placement = "raise"
    /\ call.env.basic = "raise"
    /\ call.env.attach = "raise"
    /\ call.env.check = "ok"
    /\ call.foreground = call.hwnd
    /\ call.result

\* The arrival time of the latest accepted trigger, 0 before the first.
LastAccepted ==
    IF hist.accepted = <<>> THEN 0
    ELSE CHOOSE a \in Range(hist.accepted) : \A b \in Range(hist.accepted) : b <= a

\* C31: a candidate that _should_trigger rejects leaves last_trigger_time
\* as it was, and a candidate that arrives min_trigger_interval or more
\* after the latest accepted trigger is accepted, however many candidates
\* were rejected in between.
C31_RejectedLeaveTimestamp ==
    [][/\ \A t \in LibThreads :
              (lt[t].pc = "should_trigger" /\ lt'[t].pc # "should_trigger") =>
                  /\ lt'[t].pc # "accepted" => hk'.last_trigger_time = hk.last_trigger_time
                  /\ clock - LastAccepted >= min_trigger_interval => lt'[t].pc = "accepted"
       /\ \A p \in PumpIds :
              (pump[p].pc = "should_trigger" /\ pump'[p].pc # "should_trigger") =>
                  /\ pump'[p].pc # "accepted" => hk'.last_trigger_time = hk.last_trigger_time
                  /\ clock - LastAccepted >= min_trigger_interval => pump'[p].pc = "accepted"]_vars

\* A candidate is accepted min_trigger_interval or more after an accepted
\* trigger, with a rejected candidate in between.
C31_Witness ==
    /\ hist.accepted # <<>>
    /\ hist.dropped
    /\ \/ \E t \in LibThreads :
              lt[t].pc = "accepted" /\ lt[t].now - LastAccepted >= min_trigger_interval
       \/ \E p \in PumpIds :
              pump[p].pc = "accepted" /\ pump[p].now - LastAccepted >= min_trigger_interval

\* C32: in cycle_next a successful activation of the window at the cursor
\* ends the call with the cursor one past that window, modulo the list's
\* length, successful_activations one higher and on_window_activated fired
\* once with that window; a failed one moves the cursor one on, modulo the
\* length, raises failed_activations by one, uses up one attempt and fires
\* nothing, and the loop goes on.
C32_SuccessAndFailureSteps ==
    [][(call'.op = "cycle_next" /\ wc.windows # <<>>) =>
         LET attempted == call'.attempted
             activated == call'.activated
             failures  == Len(attempted) - Len(activated)
             n         == Len(wc.windows)
             start     == IF wc.current_index >= n THEN 0 ELSE wc.current_index
         IN  /\ Len(activated) <= 1
             /\ wc'.successful_activations = wc.successful_activations + Len(activated)
             /\ wc'.failed_activations = wc.failed_activations + failures
             /\ failures <= n
             /\ activated # <<>> =>
                    /\ activated[1] = attempted[Len(attempted)]
                    /\ \E i \in DOMAIN wc'.windows :
                           /\ wc'.windows[i] = activated[1]
                           /\ wc'.current_index = i % Len(wc'.windows)
             /\ (activated = <<>> /\ call'.stopped = 0) => failures = n
             /\ call'.removed = <<>> =>
                    \A j \in DOMAIN attempted :
                        attempted[j] = wc.windows[((start + j - 1) % n) + 1]]_vars

\* A trigger whose first activation failed and whose second succeeded.
C32_Witness ==
    /\ call.op = "cycle_next"
    /\ Len(call.attempted) = 2
    /\ Len(call.activated) = 1
    /\ call.removed = <<>>
    /\ wc.failed_activations = 1
    /\ wc.successful_activations = 1

\* What is left of a cycle_next call: the loop iterations it can still make
\* (an iteration uses up an attempt, removes a window or ends the call) and
\* the statements left of the present one.
StepsLeft(f, c) ==
    CASE f.pc = "entry"       -> 12 * Len(c.windows) + 8
      [] f.pc = "count_load"  -> 12 * Len(c.windows) + 7
      [] f.pc = "count_store" -> 12 * Len(c.windows) + 6
      [] f.pc \in {"done", "raised"} -> 0
      [] OTHER ->
            6 * ((f.max_attempts - f.attempts) + Len(c.windows))
              + (CASE f.pc = "loop"  -> 5
                   [] f.pc = "fetch" -> 4
                   [] f.pc = "valid" -> 3
                   [] f.pc \in {"remove", "activate"} -> 2
                   [] OTHER -> 1)

\* C33: one cycle_next call on a list of length N terminates, every
\* statement of it leaving less of the call to do, and tries at most N
\* activations, whichever windows are valid or removed and whichever
\* activations fail.
C33_CycleNextTerminates ==
    [][("caller" \in DOMAIN call.frames /\ "caller" \in DOMAIN call'.frames) =>
          /\ StepsLeft(call'.frames["caller"], wc') < StepsLeft(call.frames["caller"], wc)
          /\ StepsLeft(call'.frames["caller"], wc') >= 0
          /\ call'.frames["caller"].error = "none"
          /\ call'.frames["caller"].activations <= call'.frames["caller"].entry_len]_vars

\* A call on three windows has ended after a removal and three failed
\* activations.
C33_Witness ==
    /\ "caller" \in DOMAIN call.frames
    /\ call.frames["caller"].pc = "done"
    /\ call.frames["caller"].entry_len = 3
    /\ call.frames["caller"].activations = 3
    /\ Len(wc.windows) = 2
    /\ wc.failed_activations = 3

\* C34: whenever WindowsAPI.activate_window has attached the thread input of
\* the calling thread to the window's thread, it has detached it again when
\* it returns, also when SetForegroundWindow or SetFocus failed while
\* attached.
C34_InputDetachedOnReturn ==
    call.op = "activate_window" => ~call.attached

\* C35: within one cycle_next call no window is handed to activate_window
\* more than once, also when other windows are removed from the list during
\* the call.
C35_NoWindowAttemptedTwice ==
    [][call'.op = "cycle_next" =>
         \A i, j \in DOMAIN call'.attempted :
             call'.attempted[i] = call'.attempted[j] => i = j]_vars

\* C36: between the calls of one thread, whenever the window list is not
\* empty the cursor is an index of it: 0 <= current_index < len(windows).
C36_CursorInRange ==
    wc.windows # <<>> =>
        /\ 0 <= wc.current_index
        /\ wc.current_index < Len(wc.windows)

\* A removal by cycle_to_specific, after a cycle_next, that leaves the
\* cursor on the last window of a list of two or more.
C36_Witness ==
    /\ call.op = "cycle_to_specific"
    /\ call.removed # <<>>
    /\ wc.total_cycles >= 1
    /\ Len(wc.windows) >= 2
    /\ wc.current_index = Len(wc.windows) - 1

\* C37: when cycle_to_specific(i) has succeeded, the cycle_next that follows
\* it, with every window valid and the activation succeeding, activates the
\* window at position (i + 1) mod len(windows), not window i once more.
C37_NextAfterJump ==
    [][(/\ call.op = "cycle_to_specific"
        /\ call.result
        /\ \A i, j \in DOMAIN wc.windows : wc.windows[i] = wc.windows[j] => i = j
        /\ call'.op = "cycle_next"
        /\ call'.valid = HandlesOf(wc.windows)
        /\ Len(call'.attempted) = 1
        /\ Len(call'.activated) = 1) =>
           call'.activated[1] = wc.windows[((call.index + 1) % Len(wc.windows)) + 1]]_vars

\* C38: when refresh_window_validity or cycle_to_specific removes invalid
\* windows but not the window at the cursor, the cursor designates
\* afterwards the window it designated before.
C38_CursorKeepsItsWindow ==
    [][(/\ call'.op \in {"refresh_window_validity", "cycle_to_specific"}
        /\ call'.removed # <<>>
        /\ \A i, j \in DOMAIN wc.windows : wc.windows[i] = wc.windows[j] => i = j
        /\ wc.current_index < Len(wc.windows)
        /\ \A k \in DOMAIN call'.removed :
               call'.removed[k] # wc.windows[wc.current_index + 1]) =>
           /\ wc'.current_index < Len(wc'.windows)
           /\ wc'.windows[wc'.current_index + 1] = wc.windows[wc.current_index + 1]]_vars

\* C39: whenever cycle_next, cycle_to_specific or refresh_window_validity
\* removes the last window of the list while the hotkey engine is
\* listening, the call stops the engine and fires on_cycling_stopped: the
\* engine is not left listening with an empty list.
C39_StoppedWhenEmptied ==
    [][(wc.windows # <<>> /\ hk.is_listening /\ wc'.windows = <<>>) =>
           /\ ~hk'.is_listening
           /\ call'.stopped = 1]_vars

\* C40: cycle_next and cycle_to_specific hand to activate_window only
\* windows that is_valid_handle has just called valid, remove only windows
\* it has just called invalid, and never hand to activate_window a window
\* that an earlier call removed, unless set_windows has supplied it again
\* (here: a window that the call before removed).
C40_OnlyLiveWindowsAttempted ==
    [][call'.op \in {"cycle_next", "cycle_to_specific"} =>
           /\ \A k \in DOMAIN call'.attempted : call'.attempted[k].hwnd \in call'.valid
           /\ \A k \in DOMAIN call'.removed : call'.removed[k].hwnd \notin call'.valid
           /\ call.op \in {"cycle_next", "cycle_to_specific"} =>
                  \A j \in DOMAIN call.removed :
                      \A k \in DOMAIN call'.attempted :
                          call.removed[j] # call'.attempted[k]]_vars

====
